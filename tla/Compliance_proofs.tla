------------------------ MODULE Compliance_proofs -------------------------
(***************************************************************************)
(* Proofs about what is kept to comply with the law: PaymentCompliance,    *)
(* for any calls, users, budgets and thresholds, and ComplianceDesk, for   *)
(* any calls, users, tiers, document types, jurisdictions, budgets and     *)
(* days.  The two use the same profiles and the same way of serving calls. *)
(***************************************************************************)
EXTENDS PaymentCompliance, ComplianceDesk, FiniteSetTheorems, TLAPS

-----------------------------------------------------------------------------
(***************************************************************************)
(* PaymentCompliance.                                                      *)
(***************************************************************************)
\* Where a call is before its COMMIT, and where it is after.
Before == {"kyc", "limits", "daily", "commit"}
After == {"travel", "clearing", "clearing_id", "l1", "hash"}

\* What a call that has yet to commit will write into the row.
Asked(r) ==
    /\ {"user", "amount", "since"} \subseteq DOMAIN r
    /\ r.user \in Users /\ r.amount \in Amounts /\ r.since \in Nat

\* The place of a call after its COMMIT says what Clearing and L1 hold of its payment.
Placed(place, n) ==
    /\ n \in DOMAIN transactions
    /\ place \in {"travel", "clearing"} => outside[n].clearing = 0
    /\ place \in {"travel", "clearing", "clearing_id", "l1"} => outside[n].l1 = 0
    /\ place = "clearing_id" => outside[n].clearing = 1
    /\ place = "hash" => outside[n].l1 = 1

Rows == [user : Users, amount : Amounts, unlimited : BOOLEAN, since : Nat,
         clearing_id : BOOLEAN, blockchain_hash : BOOLEAN,
         travel : {"unknown", "exempt", "failed"}]

Tables ==
    /\ \E S : log \in Seq(S)
    /\ transactions \in Seq(Rows)
    /\ outside \in Seq([clearing : {0, 1}, l1 : {0, 1}])
    /\ Len(outside) = Len(transactions)

\* A payment is in the hands of one call.
OwnInv ==
    /\ Tables
    /\ DOMAIN pc = Calls /\ DOMAIN req = Calls
    /\ \A c \in Calls : pc[c] \in Before => Asked(req[c])
    /\ \A c \in Calls : pc[c] \in After => Placed(pc[c], Mine(c))
    /\ \A c, d \in Calls : (c # d /\ pc[c] \in After /\ pc[d] \in After) => Mine(c) # Mine(d)
    /\ SubmittedOnce

-----------------------------------------------------------------------------
\* A log stays a sequence.
LEMMA LogGrows ==
    ASSUME \E S : log \in Seq(S), NEW e, log' = Append(log, e)
    PROVE  (\E S : log \in Seq(S))'
<1>1. PICK S : log \in Seq(S)
  OBVIOUS
<1>2. Append(log, e) \in Seq(S \cup {e})
  BY <1>1
<1> QED BY <1>2

\* Steps that leave the payments and what is held of them alone: at most one call moves, to a
\* place where less is asked of it, or it carries on with what it has.
LEMMA Quiet ==
    ASSUME OwnInv, (\E S : log \in Seq(S))', UNCHANGED <<transactions, outside>>,
           DOMAIN pc' = Calls, DOMAIN req' = Calls,
           \A c \in Calls : pc'[c] \in Before => Asked(req'[c]),
           \A c \in Calls : pc'[c] \in After =>
               /\ pc[c] \in After /\ req'[c].tx = req[c].tx
               /\ Placed(pc'[c], req[c].tx)
    PROVE  OwnInv'
<1>1. Tables'
  BY DEF OwnInv, Tables
<1>2. SubmittedOnce'
  BY DEF OwnInv, SubmittedOnce
<1>3. \A c \in Calls : pc'[c] \in After => Placed(pc[c], Mine(c))'
  BY DEF Placed, Mine
<1>4. (\A c, d \in Calls : (c # d /\ pc[c] \in After /\ pc[d] \in After) => Mine(c) # Mine(d))'
  BY DEF OwnInv, Mine
<1> QED BY <1>1, <1>2, <1>3, <1>4 DEF OwnInv

\* Steps of a call after its COMMIT, which write its own row at most.
LEMMA OwnStep ==
    ASSUME OwnInv, NEW c \in Calls, pc[c] \in After, NEW l \in After \cup {"idle"},
           pc' = [pc EXCEPT ![c] = l], DOMAIN req' = Calls,
           \A d \in Calls \ {c} : req'[d] = req[d],
           l \in After => req'[c].tx = req[c].tx,
           transactions' \in Seq(Rows), Len(transactions') = Len(transactions),
           outside' \in Seq([clearing : {0, 1}, l1 : {0, 1}]), Len(outside') = Len(outside),
           \A n \in DOMAIN transactions \ {Mine(c)} :
               transactions'[n] = transactions[n] /\ outside'[n] = outside[n],
           l \in After => Placed(l, req[c].tx)',
           LET n == req[c].tx IN
               /\ transactions'[n].clearing_id => outside'[n].clearing = 1
               /\ transactions'[n].blockchain_hash => outside'[n].l1 = 1,
           UNCHANGED log
    PROVE  OwnInv'
<1> DEFINE tx == req[c].tx
<1>1. Tables'
  BY DEF OwnInv, Tables
<1>2. DOMAIN transactions' = DOMAIN transactions /\ DOMAIN outside' = DOMAIN transactions
  BY DEF OwnInv, Tables
<1>3. DOMAIN pc' = Calls /\ \A d \in Calls : pc'[d] \in Before => Asked(req'[d])
  BY DEF OwnInv, Before, After
<1>4. ASSUME NEW d \in Calls, pc'[d] \in After PROVE Placed(pc[d], Mine(d))'
  <2>1. CASE d = c
    BY <1>4, <2>1 DEF OwnInv, Mine, Placed
  <2>2. CASE d # c
    <3>1. pc'[d] = pc[d] /\ req'[d] = req[d] /\ Mine(d) # Mine(c) /\ Placed(pc[d], Mine(d))
      BY <1>4, <2>2 DEF OwnInv
    <3> QED BY <1>2, <3>1 DEF Placed, Mine
  <2> QED BY <2>1, <2>2
<1>5. (\A d, e \in Calls : (d # e /\ pc[d] \in After /\ pc[e] \in After) => Mine(d) # Mine(e))'
  BY DEF OwnInv, Mine
<1>6. SubmittedOnce'
  <2> SUFFICES ASSUME NEW n \in DOMAIN transactions
               PROVE  /\ outside'[n].clearing <= 1 /\ outside'[n].l1 <= 1
                      /\ transactions'[n].clearing_id => outside'[n].clearing = 1
                      /\ transactions'[n].blockchain_hash => outside'[n].l1 = 1
    BY <1>2 DEF SubmittedOnce
  <2>1. outside'[n] \in [clearing : {0, 1}, l1 : {0, 1}]
    <3>1. n \in DOMAIN outside'
      BY <1>2
    <3>2. \A S : \A s \in Seq(S) : \A k \in DOMAIN s : s[k] \in S
      OBVIOUS
    <3> QED BY <3>1, <3>2
  <2>2. CASE n # Mine(c)
    BY <2>1, <2>2 DEF OwnInv, SubmittedOnce
  <2>3. CASE n = Mine(c)
    BY <2>1, <2>3 DEF Mine
  <2> QED BY <2>2, <2>3
<1> QED BY <1>1, <1>3, <1>4, <1>5, <1>6 DEF OwnInv

\* A call keeps what it was asked when it notes a fact beside it.
LEMMA AskedStays ==
    ASSUME NEW r, Asked(r), NEW x PROVE Asked(With(r, [daily |-> x]))
BY DEF Asked, With

-----------------------------------------------------------------------------
USE DEF At, Goto, Note, Finish, Enter, AtOnce, Begin, Fail, Record, callVars, aftermath

\* The steps of profiles and jurisdictions: their calls are at places of their own.
LEMMA OthersKeep ==
    ASSUME OwnInv,
           \/ KycNext /\ UNCHANGED <<jurisdictions, aftermath>>
           \/ JurisdictionsNext /\ UNCHANGED <<profiles, aftermath>>
    PROVE  OwnInv'
<1>1. (\E S : log \in Seq(S)) /\ DOMAIN pc = Calls /\ DOMAIN req = Calls
  BY DEF OwnInv, Tables
<1>2. ASSUME NEW e, log' = Append(log, e) PROVE (\E S : log \in Seq(S))'
  BY <1>1, <1>2, LogGrows
<1>3. UNCHANGED log => (\E S : log \in Seq(S))'
  BY <1>1
<1>4. ASSUME NEW c \in Calls, NEW l \in {"idle", "profile", "detect"}, NEW r,
             pc' = [pc EXCEPT ![c] = l], req' = [req EXCEPT ![c] = r],
             (\E S : log \in Seq(S))', UNCHANGED <<transactions, outside>>
      PROVE  OwnInv'
  <2>1. \A d \in Calls : pc'[d] \in Before => Asked(req'[d])
    BY <1>1, <1>4 DEF OwnInv, Before
  <2>2. \A d \in Calls : pc'[d] \in After =>
          pc[d] \in After /\ req'[d].tx = req[d].tx /\ Placed(pc'[d], req[d].tx)
    BY <1>1, <1>4 DEF OwnInv, After, Mine
  <2> QED BY <1>1, <1>4, <2>1, <2>2, Quiet
<1>5. ASSUME (\E S : log \in Seq(S))', UNCHANGED <<pc, req, transactions, outside>> PROVE OwnInv'
  <2>1. \A d \in Calls : pc'[d] \in Before => Asked(req'[d])
    BY <1>5 DEF OwnInv
  <2>2. \A d \in Calls : pc'[d] \in After =>
          pc[d] \in After /\ req'[d].tx = req[d].tx /\ Placed(pc'[d], req[d].tx)
    BY <1>5 DEF OwnInv, Mine
  <2> QED BY <1>1, <1>5, <2>1, <2>2, Quiet
<1>6. ASSUME NEW c \in Calls, NEW u \in Users, BeginSubmit(c, u) \/ BeginDetect(c, u),
             UNCHANGED aftermath
      PROVE  OwnInv'
  BY <1>3, <1>4, <1>6 DEF BeginSubmit, BeginDetect
<1>7. ASSUME NEW c \in Calls, WriteProfile(c), UNCHANGED aftermath PROVE OwnInv'
  <2>1. (\E S : log \in Seq(S))'
    BY <1>2, <1>3, <1>7 DEF WriteProfile
  <2> QED BY <1>4, <1>7, <2>1 DEF WriteProfile
<1>8. ASSUME NEW i \in DOMAIN profiles, NEW t \in Tiers, VerifyProfile(i, t), UNCHANGED aftermath
      PROVE  OwnInv'
  <2>1. (\E S : log \in Seq(S))'
    BY <1>2, <1>8 DEF VerifyProfile
  <2> QED BY <1>5, <1>8, <2>1 DEF VerifyProfile
<1>9. ASSUME NEW c \in Calls, DetectJurisdiction(c), UNCHANGED aftermath PROVE OwnInv'
  <2>1. (\E S : log \in Seq(S))'
    BY <1>2, <1>9 DEF DetectJurisdiction
  <2> QED BY <1>4, <1>9, <2>1 DEF DetectJurisdiction
<1>10. ASSUME NEW u \in Users, NEW k \in Countries, DeclareJurisdiction(u, k), UNCHANGED aftermath
       PROVE  OwnInv'
  BY <1>3, <1>5, <1>10 DEF DeclareJurisdiction
<1> QED BY <1>6, <1>7, <1>8, <1>9, <1>10 DEF KycNext, JurisdictionsNext

\* The steps of a payment before its COMMIT, and failures.
LEMMA ChecksKeep ==
    ASSUME OwnInv, NEW c \in Calls,
           \/ \E u \in Users, a \in Amounts : BeginPayment(c, u, a)
           \/ \E i \in DOMAIN profiles : CheckKyc(c, i) \/ ReadLimits(c, i)
           \/ RefuseUnknown(c) \/ CheckDaily(c) \/ FailBefore(c)
    PROVE  OwnInv'
<1>1. (\E S : log \in Seq(S)) /\ DOMAIN pc = Calls /\ DOMAIN req = Calls
  BY DEF OwnInv, Tables
<1>2. ASSUME NEW l \in Before \cup {"idle"}, NEW r, l \in Before => Asked(r),
             pc' = [pc EXCEPT ![c] = l], req' = [req EXCEPT ![c] = r],
             UNCHANGED <<log, transactions, outside>>
      PROVE  OwnInv'
  <2>1. \A d \in Calls : pc'[d] \in Before => Asked(req'[d])
    BY <1>1, <1>2 DEF OwnInv
  <2>2. \A d \in Calls : pc'[d] \in After =>
          pc[d] \in After /\ req'[d].tx = req[d].tx /\ Placed(pc'[d], req[d].tx)
    BY <1>1, <1>2 DEF OwnInv, Before, After, Mine
  <2> QED BY <1>1, <1>2, <2>1, <2>2, Quiet
<1>3. ASSUME NEW l \in Before, pc[c] \in Before, pc' = [pc EXCEPT ![c] = l],
             UNCHANGED <<req, log, transactions, outside>>
      PROVE  OwnInv'
  <2>1. \A d \in Calls : pc'[d] \in Before => Asked(req'[d])
    BY <1>1, <1>3 DEF OwnInv
  <2>2. \A d \in Calls : pc'[d] \in After =>
          pc[d] \in After /\ req'[d].tx = req[d].tx /\ Placed(pc'[d], req[d].tx)
    BY <1>1, <1>3 DEF OwnInv, Before, After, Mine
  <2> QED BY <1>1, <1>3, <2>1, <2>2, Quiet
<1>4. ASSUME NEW u \in Users, NEW a \in Amounts, BeginPayment(c, u, a) PROVE OwnInv'
  <2>1. Len(log) \in Nat
    BY <1>1
  <2>2. Asked([op |-> "pay", user |-> u, amount |-> a, since |-> Len(log)])
    BY <2>1 DEF Asked
  <2> QED BY <1>2, <1>4, <2>2 DEF BeginPayment, Before
<1>5. ASSUME NEW i \in DOMAIN profiles, CheckKyc(c, i) PROVE OwnInv'
  BY <1>2, <1>3, <1>5 DEF CheckKyc, Before
<1>6. ASSUME NEW i \in DOMAIN profiles, ReadLimits(c, i) PROVE OwnInv'
  <2>1. Asked(req[c])
    BY <1>6 DEF ReadLimits, OwnInv, Before
  <2>2. Asked(With(req[c], [daily |-> Limits(profiles[i].tier).daily]))
    BY <2>1, AskedStays
  <2> QED BY <1>2, <1>6, <2>2 DEF ReadLimits, Before
<1>7. CASE RefuseUnknown(c)
  BY <1>2, <1>7 DEF RefuseUnknown, Before
<1>8. CASE CheckDaily(c)
  BY <1>2, <1>3, <1>8 DEF CheckDaily, Before
<1>9. CASE FailBefore(c)
  BY <1>2, <1>9 DEF FailBefore, Before
<1> QED BY <1>4, <1>5, <1>6, <1>7, <1>8, <1>9

\* COMMIT gives the payment a row of its own, which no other call has.
LEMMA CommitKeeps ==
    ASSUME OwnInv, NEW c \in Calls, CommitPayment(c)
    PROVE  OwnInv'
<1> DEFINE n == Len(transactions) + 1
           row == [user |-> req[c].user, amount |-> req[c].amount, unlimited |-> req[c].daily = 0,
                   since |-> req[c].since, clearing_id |-> FALSE, blockchain_hash |-> FALSE,
                   travel |-> "unknown"]
           nothing == [clearing |-> 0, l1 |-> 0]
<1>1. /\ pc[c] = "commit" /\ pc' = [pc EXCEPT ![c] = "travel"]
      /\ req' = [req EXCEPT ![c] = With(req[c], [tx |-> n])]
      /\ transactions' = Append(transactions, row) /\ outside' = Append(outside, nothing)
      /\ log' = log
  BY DEF CommitPayment
<1>2. DOMAIN pc = Calls /\ DOMAIN req = Calls /\ Tables
  BY DEF OwnInv
<1>3. row \in Rows
  <2>1. Asked(req[c])
    BY <1>1 DEF OwnInv, Before
  <2> QED BY <2>1 DEF Asked, Rows
<1>4. /\ transactions' \in Seq(Rows) /\ outside' \in Seq([clearing : {0, 1}, l1 : {0, 1}])
      /\ Len(transactions') = n /\ Len(outside') = n
      /\ transactions'[n] = row /\ outside'[n] = nothing
      /\ n \notin DOMAIN transactions /\ DOMAIN transactions' = DOMAIN transactions \cup {n}
      /\ \A k \in DOMAIN transactions : transactions'[k] = transactions[k] /\ outside'[k] = outside[k]
  BY <1>1, <1>2, <1>3 DEF Tables
<1>5. req'[c].tx = n /\ \A d \in Calls \ {c} : pc'[d] = pc[d] /\ req'[d] = req[d]
  BY <1>1, <1>2 DEF With
<1>6. Tables'
  BY <1>1, <1>2, <1>4 DEF Tables
<1>7. \A d \in Calls : pc'[d] \in Before => Asked(req'[d])
  BY <1>1, <1>2, <1>5 DEF OwnInv, Before
<1>8. ASSUME NEW d \in Calls, pc'[d] \in After PROVE Placed(pc[d], Mine(d))'
  <2>1. CASE d = c
    BY <1>1, <1>2, <1>4, <1>5, <2>1 DEF Placed, Mine
  <2>2. CASE d # c
    <3>1. Placed(pc[d], Mine(d))
      BY <1>5, <1>8, <2>2 DEF OwnInv
    <3> QED BY <1>4, <1>5, <2>2, <3>1 DEF Placed, Mine
  <2> QED BY <2>1, <2>2
<1>9. ASSUME NEW d \in Calls, NEW e \in Calls, d # e, pc'[d] \in After, pc'[e] \in After
      PROVE  (Mine(d) # Mine(e))'
  <2>1. \A f \in Calls \ {c} : pc'[f] \in After => req'[f].tx \in DOMAIN transactions
    BY <1>5 DEF OwnInv, Placed, Mine
  <2> QED BY <1>4, <1>5, <1>9, <2>1 DEF OwnInv, Mine
<1>10. SubmittedOnce'
  BY <1>4 DEF OwnInv, SubmittedOnce
<1>11. DOMAIN pc' = Calls /\ DOMAIN req' = Calls
  BY <1>1, <1>2
<1> QED BY <1>6, <1>7, <1>8, <1>9, <1>10, <1>11 DEF OwnInv

-----------------------------------------------------------------------------
\* Each step after COMMIT, up to the answer.
LEMMA AftermathKeeps ==
    ASSUME OwnInv, NEW c \in Calls,
           \/ TravelRule(c) \/ RecordClearing(c) \/ RecordHash(c)
           \/ \E arrives, answered \in BOOLEAN : SubmitClearing(c, arrives, answered)
                                                 \/ SendL1(c, arrives, answered)
    PROVE  OwnInv'
<1> DEFINE tx == req[c].tx
<1>1. Tables /\ DOMAIN pc = Calls /\ DOMAIN req = Calls
  BY DEF OwnInv
<1>2. ASSUME pc[c] \in After
      PROVE  /\ tx \in DOMAIN transactions /\ Placed(pc[c], tx)
             /\ transactions[tx] \in Rows /\ outside[tx] \in [clearing : {0, 1}, l1 : {0, 1}]
             /\ transactions[tx].clearing_id => outside[tx].clearing = 1
             /\ transactions[tx].blockchain_hash => outside[tx].l1 = 1
             /\ Mine(c) = tx
  <2>1. Placed(pc[c], tx) /\ Mine(c) = tx
    BY <1>2 DEF OwnInv, Mine
  <2>2. tx \in DOMAIN transactions
    BY <2>1 DEF Placed
  <2>3. \A S : \A s \in Seq(S) : \A k \in DOMAIN s : s[k] \in S
    OBVIOUS
  <2>4. transactions[tx] \in Rows /\ outside[tx] \in [clearing : {0, 1}, l1 : {0, 1}]
    <3>1. tx \in DOMAIN outside
      BY <1>1, <2>2 DEF Tables
    <3> QED BY <1>1, <2>2, <2>3, <3>1 DEF Tables
  <2> QED BY <2>1, <2>2, <2>4 DEF OwnInv, SubmittedOnce
<1>3. ASSUME NEW f \in Rows, tx \in DOMAIN transactions, pc[c] \in After,
             transactions' = [transactions EXCEPT ![tx] = f]
      PROVE  /\ transactions' \in Seq(Rows) /\ Len(transactions') = Len(transactions)
             /\ DOMAIN transactions' = DOMAIN transactions /\ transactions'[tx] = f
             /\ \A k \in DOMAIN transactions \ {tx} : transactions'[k] = transactions[k]
  BY <1>1, <1>3 DEF Tables
<1>4. ASSUME NEW f \in [clearing : {0, 1}, l1 : {0, 1}], tx \in DOMAIN transactions,
             outside' = [outside EXCEPT ![tx] = f]
      PROVE  /\ outside' \in Seq([clearing : {0, 1}, l1 : {0, 1}]) /\ Len(outside') = Len(outside)
             /\ outside'[tx] = f
             /\ \A k \in DOMAIN transactions \ {tx} : outside'[k] = outside[k]
  BY <1>1, <1>4 DEF Tables
<1>5. CASE TravelRule(c)
  <2>1. pc[c] = "travel" /\ pc' = [pc EXCEPT ![c] = "clearing"] /\ UNCHANGED <<req, outside, log>>
    BY <1>5 DEF TravelRule
  <2>2. PICK t \in {"exempt", "failed"} :
          transactions' = [transactions EXCEPT ![tx] = [transactions[tx] EXCEPT !.travel = t]]
    BY <1>5 DEF TravelRule, Mine, CreateTravelRuleRecord
  <2>3. [transactions[tx] EXCEPT !.travel = t] \in Rows
    BY <1>2, <2>1, <2>2 DEF Rows, After
  <2> DEFINE f == [transactions[tx] EXCEPT !.travel = t]
  <2>4. f.clearing_id = transactions[tx].clearing_id /\ f.blockchain_hash = transactions[tx].blockchain_hash
    BY <1>2, <2>1 DEF Rows, After
  <2>5. Placed("clearing", tx)'
    BY <1>2, <1>3, <2>1, <2>2, <2>3 DEF Placed, After
  <2> QED BY <1>1, <1>2, <1>3, <2>1, <2>2, <2>3, <2>4, <2>5, OwnStep DEF After, Tables
<1>6. CASE RecordClearing(c)
  <2>1. pc[c] = "clearing_id" /\ pc' = [pc EXCEPT ![c] = "l1"] /\ UNCHANGED <<req, outside, log>>
    BY <1>6 DEF RecordClearing
  <2> DEFINE f == [transactions[tx] EXCEPT !.clearing_id = TRUE]
  <2>2. transactions' = [transactions EXCEPT ![tx] = f]
    BY <1>6 DEF RecordClearing, Mine
  <2>3. f \in Rows /\ f.blockchain_hash = transactions[tx].blockchain_hash
    BY <1>2, <2>1 DEF Rows, After
  <2>4. Placed("l1", tx)' /\ outside[tx].clearing = 1
    BY <1>2, <1>3, <2>1, <2>2, <2>3 DEF Placed, After
  <2> QED BY <1>1, <1>2, <1>3, <2>1, <2>2, <2>3, <2>4, OwnStep DEF After, Tables
<1>7. CASE RecordHash(c)
  <2>1. /\ pc[c] = "hash" /\ pc' = [pc EXCEPT ![c] = "idle"]
        /\ req' = [req EXCEPT ![c] = NoRequest] /\ UNCHANGED <<outside, log>>
    BY <1>7 DEF RecordHash
  <2> DEFINE f == [transactions[tx] EXCEPT !.blockchain_hash = TRUE]
  <2>2. transactions' = [transactions EXCEPT ![tx] = f]
    BY <1>7 DEF RecordHash, Mine
  <2>3. f \in Rows /\ f.clearing_id = transactions[tx].clearing_id
    BY <1>2, <2>1 DEF Rows, After
  <2>4. outside[tx].l1 = 1
    BY <1>2, <2>1 DEF Placed, After
  <2>5. "idle" \notin After
    BY DEF After
  <2> QED BY <1>1, <1>2, <1>3, <2>1, <2>2, <2>3, <2>4, <2>5, OwnStep DEF After, Tables
<1>8. ASSUME NEW arrives \in BOOLEAN, NEW answered \in BOOLEAN, SubmitClearing(c, arrives, answered)
      PROVE  OwnInv'
  <2>1. /\ pc[c] = "clearing" /\ UNCHANGED <<req, transactions, log>>
        /\ pc' = [pc EXCEPT ![c] = IF answered THEN "clearing_id" ELSE "l1"]
        /\ answered => arrives
    BY <1>8 DEF SubmitClearing
  <2> DEFINE f == IF arrives THEN [outside[tx] EXCEPT !.clearing = @ + 1] ELSE outside[tx]
             l == IF answered THEN "clearing_id" ELSE "l1"
  <2>2. outside[tx].clearing = 0 /\ outside[tx].l1 = 0
    BY <1>2, <2>1 DEF Placed, After
  <2>3. /\ f \in [clearing : {0, 1}, l1 : {0, 1}] /\ f.l1 = 0 /\ (arrives => f.clearing = 1)
    BY <1>2, <2>1, <2>2 DEF After
  <2>4. outside' = [outside EXCEPT ![tx] = f]
    <3>1. CASE arrives
      BY <1>8, <3>1 DEF SubmitClearing, Mine
    <3>2. CASE ~arrives
      BY <1>1, <1>2, <1>8, <2>1, <3>2 DEF SubmitClearing, After, Tables
    <3> QED BY <3>1, <3>2
  <2>5. Placed(l, tx)'
    BY <1>2, <1>4, <2>1, <2>3, <2>4 DEF Placed, After
  <2>6. ~transactions[tx].clearing_id /\ ~transactions[tx].blockchain_hash
    BY <1>2, <2>1, <2>2 DEF After
  <2> QED BY <1>1, <1>2, <1>4, <2>1, <2>3, <2>4, <2>5, <2>6, OwnStep DEF After, Tables
<1>9. ASSUME NEW arrives \in BOOLEAN, NEW answered \in BOOLEAN, SendL1(c, arrives, answered)
      PROVE  OwnInv'
  <2>1. /\ pc[c] = "l1" /\ UNCHANGED <<transactions, log>>
        /\ pc' = [pc EXCEPT ![c] = IF answered THEN "hash" ELSE "idle"]
        /\ DOMAIN req' = Calls /\ \A d \in Calls \ {c} : req'[d] = req[d]
        /\ answered => (arrives /\ req'[c] = req[c])
    BY <1>1, <1>9 DEF SendL1
  <2> DEFINE f == IF arrives THEN [outside[tx] EXCEPT !.l1 = @ + 1] ELSE outside[tx]
             l == IF answered THEN "hash" ELSE "idle"
  <2>2. outside[tx].l1 = 0
    BY <1>2, <2>1 DEF Placed, After
  <2>3. /\ f \in [clearing : {0, 1}, l1 : {0, 1}] /\ f.clearing = outside[tx].clearing
        /\ arrives => f.l1 = 1
    BY <1>2, <2>1, <2>2 DEF After
  <2>4. outside' = [outside EXCEPT ![tx] = f]
    <3>1. CASE arrives
      BY <1>9, <3>1 DEF SendL1, Mine
    <3>2. CASE ~arrives
      BY <1>1, <1>2, <1>9, <2>1, <3>2 DEF SendL1, After, Tables
    <3> QED BY <3>1, <3>2
  <2>6. ~transactions[tx].blockchain_hash
    BY <1>2, <2>1, <2>2 DEF After
  <2>8. /\ pc[c] \in After /\ transactions' \in Seq(Rows) /\ Len(transactions') = Len(transactions)
        /\ outside' \in Seq([clearing : {0, 1}, l1 : {0, 1}]) /\ Len(outside') = Len(outside)
    BY <1>1, <1>2, <1>4, <2>1, <2>3, <2>4 DEF After, Tables
  <2>9. \A n \in DOMAIN transactions \ {Mine(c)} :
            transactions'[n] = transactions[n] /\ outside'[n] = outside[n]
    BY <1>2, <1>4, <2>1, <2>3, <2>4, <2>8
  <2>10. /\ transactions'[tx].clearing_id => outside'[tx].clearing = 1
         /\ transactions'[tx].blockchain_hash => outside'[tx].l1 = 1
    BY <1>2, <1>4, <2>1, <2>3, <2>4, <2>6, <2>8
  <2>5. CASE answered
    <3>1. req'[c].tx = req[c].tx
      BY <2>1, <2>5
    <3>2. tx \in DOMAIN transactions /\ outside'[tx].l1 = 1 /\ "hash" \in After
      BY <1>2, <1>4, <2>1, <2>3, <2>4, <2>5 DEF After
    <3>3. tx \in DOMAIN transactions'
      BY <2>1, <3>2
    <3>4. Placed("hash", tx)'
      BY <3>1, <3>2, <3>3 DEF Placed
    <3>5. pc' = [pc EXCEPT ![c] = "hash"]
      BY <2>1, <2>5
    <3> QED BY <2>1, <2>8, <2>9, <2>10, <3>1, <3>2, <3>4, <3>5, OwnStep
  <2>7. CASE ~answered
    <3>1. "idle" \notin After
      BY DEF After
    <3>2. pc' = [pc EXCEPT ![c] = "idle"]
      BY <2>1, <2>7
    <3> QED BY <2>1, <2>8, <2>9, <2>10, <3>1, <3>2, OwnStep
  <2> QED BY <2>5, <2>7
<1> QED BY <1>5, <1>6, <1>7, <1>8, <1>9

\* Monitoring and a restart touch neither the payments nor what is held of them.
LEMMA BesideKeeps ==
    ASSUME OwnInv,
           Restart \/ \E n \in DOMAIN transactions : Monitor(n) \/ LoseMonitor(n)
    PROVE  OwnInv'
<1>1. (\E S : log \in Seq(S)) /\ DOMAIN pc = Calls /\ DOMAIN req = Calls
  BY DEF OwnInv, Tables
<1>2. CASE Restart
  <2>1. /\ pc' = [c \in Calls |-> "idle"] /\ DOMAIN req' = Calls
        /\ UNCHANGED <<log, transactions, outside>>
    BY <1>2 DEF Restart
  <2> QED BY <1>1, <2>1, Quiet DEF Before, After
<1>3. ASSUME UNCHANGED <<pc, req, log, transactions, outside>> PROVE OwnInv'
  <2>1. \A d \in Calls : pc'[d] \in After =>
          pc[d] \in After /\ req'[d].tx = req[d].tx /\ Placed(pc'[d], req[d].tx)
    BY <1>3 DEF OwnInv, Mine
  <2>2. \A d \in Calls : pc'[d] \in Before => Asked(req'[d])
    BY <1>3 DEF OwnInv
  <2> QED BY <1>1, <1>3, <2>1, <2>2, Quiet
<1>4. ASSUME NEW n \in DOMAIN transactions, Monitor(n) \/ LoseMonitor(n) PROVE OwnInv'
  <2>1. UNCHANGED <<pc, req, log, transactions, outside>>
    BY <1>4 DEF Monitor, LoseMonitor, CheckVelocity, CheckStructuring, CheckTheRest, StoreAlert,
                MonitoringOnly
  <2> QED BY <1>3, <2>1
<1> QED BY <1>2, <1>4

\* The invariant holds at first, and every step keeps it.
LEMMA OwnAlways == Spec => []OwnInv
<1>1. Init => OwnInv
  <2> SUFFICES ASSUME Init PROVE OwnInv
    OBVIOUS
  <2>1. log \in Seq({}) /\ transactions = <<>> /\ outside = <<>>
    BY DEF Init, CallsInit
  <2>2. pc = [c \in Calls |-> "idle"] /\ DOMAIN req = Calls
    BY DEF Init, CallsInit
  <2> QED BY <2>1, <2>2 DEF OwnInv, Tables, SubmittedOnce, Before, After
<1>2. OwnInv /\ [Next]_vars => OwnInv'
  <2> SUFFICES ASSUME OwnInv, [Next]_vars PROVE OwnInv'
    OBVIOUS
  <2>1. CASE KycNext /\ UNCHANGED <<jurisdictions, aftermath>>
    BY <2>1, OthersKeep
  <2>2. CASE JurisdictionsNext /\ UNCHANGED <<profiles, aftermath>>
    BY <2>2, OthersKeep
  <2>3. CASE \E c \in Calls, u \in Users, a \in Amounts : BeginPayment(c, u, a)
    BY <2>3, ChecksKeep
  <2>4. ASSUME NEW c \in Calls, Step(c) \/ FailBefore(c) PROVE OwnInv'
    <3>1. CASE \/ \E i \in DOMAIN profiles : CheckKyc(c, i) \/ ReadLimits(c, i)
               \/ RefuseUnknown(c) \/ CheckDaily(c) \/ FailBefore(c)
      BY <3>1, ChecksKeep
    <3>2. CASE CommitPayment(c)
      BY <3>2, CommitKeeps
    <3>3. CASE \/ TravelRule(c) \/ RecordClearing(c) \/ RecordHash(c)
               \/ \E arrives, answered \in BOOLEAN : SubmitClearing(c, arrives, answered)
                                                     \/ SendL1(c, arrives, answered)
      BY <3>3, AftermathKeeps
    <3> QED BY <2>4, <3>1, <3>2, <3>3 DEF Step
  <2>5. CASE Restart \/ \E n \in DOMAIN transactions : Monitor(n) \/ LoseMonitor(n)
    BY <2>5, BesideKeeps
  <2>6. CASE UNCHANGED vars
    <3>1. UNCHANGED <<pc, req, log, transactions, outside>>
      BY <2>6 DEF vars
    <3>2. \A d \in Calls : pc'[d] \in After =>
            pc[d] \in After /\ req'[d].tx = req[d].tx /\ Placed(pc'[d], req[d].tx)
      BY <3>1 DEF OwnInv, Mine
    <3>3. (\E S : log \in Seq(S))' /\ \A d \in Calls : pc'[d] \in Before => Asked(req'[d])
      BY <3>1 DEF OwnInv, Tables
    <3> QED BY <3>1, <3>2, <3>3, Quiet DEF OwnInv
  <2> QED BY <2>1, <2>2, <2>3, <2>4, <2>5, <2>6 DEF Next
<1> QED BY <1>1, <1>2, PTL DEF Spec

\* Neither Clearing nor L1 is given a payment twice, and an id on record is of a submission that
\* arrived, for any number of calls and users, whatever fails or is stopped.
THEOREM PaymentsSubmittedOnce == Spec => []SubmittedOnce
<1>1. OwnInv => SubmittedOnce
  BY DEF OwnInv
<1> QED BY <1>1, OwnAlways, PTL


-----------------------------------------------------------------------------
(***************************************************************************)
(* What a payment rests on.                                                *)
(***************************************************************************)
\* Of r, a request or a row: no detection of its user before its call began.
Undetected(r) ==
    /\ r.since \in Nat /\ r.since <= Len(log)
    /\ \A i \in 1 .. r.since : ~(log[i].op = "detect" /\ log[i].user = r.user)

\* An approval of u at tier t.
Verified(k, u, t) == log[k].op = "verify" /\ log[k].user = u /\ log[k].tier = t

\* An approval that covers the amount and that no submission had withdrawn when the call began.
Approved(r) ==
    \E k \in DOMAIN log :
        /\ log[k].op = "verify" /\ log[k].user = r.user /\ r.amount <= Limits(log[k].tier).single
        /\ \A j \in 1 .. r.since : (log[j].op = "resubmit" /\ log[j].user = r.user) => j < k

\* Some profile of u has the tier of an approval.
Known(u) == \E i \in ProfilesOf(u), k \in DOMAIN log : Verified(k, u, profiles[i].tier)

\* The two ways to a payment without a daily limit.
Exempt(u) ==
    \/ Cardinality(ProfilesOf(u)) > 1
    \/ \E k \in DOMAIN log : /\ log[k].op = "verify" /\ log[k].user = u
                             /\ log[k].tier \notin DOMAIN TierLimits

\* What a call that waits at l has established.
Passed(l, r) ==
    /\ l \in {"profile", "detect"} \cup Before => r.user \in Users
    /\ l \in Before => Undetected(r)
    /\ l \in {"limits", "daily", "commit"} => Approved(r) /\ Known(r.user)
    /\ l \in {"daily", "commit"} => (r.daily = 0 => Exempt(r.user))

\* A row that is approved has been since the last submission of its user; a tier other than 0
\* was given by an approval.
Backed(i) ==
    LET u == profiles[i].user
        t == profiles[i].tier IN
    /\ profiles[i].status = "approved" =>
         \E k \in DOMAIN log :
             /\ Verified(k, u, t)
             /\ \A j \in DOMAIN log : (log[j].op = "resubmit" /\ log[j].user = u) => j < k
    /\ t = 0 \/ \E k \in DOMAIN log : Verified(k, u, t)

\* Who has been detected has a row, and that row blocks.
Detections ==
    /\ \A i \in DOMAIN log : log[i].op = "detect" =>
         log[i].user \in Users /\ jurisdictions[log[i].user] # NoRow
    /\ \A u \in Users : jurisdictions[u] = NoRow \/ IsGeoBlocked(u)

Paid(n) ==
    LET row == transactions[n] IN
    Undetected(row) /\ Approved(row) /\ (row.unlimited => Exempt(row.user))

Ranges ==
    /\ KycTypeOK /\ JurisdictionsTypeOK
    /\ pc \in [Calls -> {"idle", "profile", "detect", "kyc", "limits", "daily", "commit", "travel",
                         "clearing", "clearing_id", "l1", "hash"}]
    /\ failures \in 0 .. MaxFailures
    /\ \E S : monitors \in Seq(S)
    /\ Len(monitors) = Len(transactions)

ClearInv ==
    /\ Ranges
    /\ \A i \in DOMAIN profiles : Backed(i)
    /\ Detections
    /\ \A c \in Calls : Passed(pc[c], req[c])
    /\ \A n \in DOMAIN transactions : Paid(n)

-----------------------------------------------------------------------------
\* A list with one element replaced.
LEMMA Replaced ==
    ASSUME NEW s, \E S : s \in Seq(S), NEW n \in DOMAIN s, NEW x
    PROVE  /\ \E S : [s EXCEPT ![n] = x] \in Seq(S)
           /\ Len([s EXCEPT ![n] = x]) = Len(s)
           /\ DOMAIN [s EXCEPT ![n] = x] = DOMAIN s
<1>1. PICK S : s \in Seq(S)
  OBVIOUS
<1>2. s \in Seq(S \cup {x})
  BY <1>1
<1>3. /\ [s EXCEPT ![n] = x] \in Seq(S \cup {x}) /\ Len([s EXCEPT ![n] = x]) = Len(s)
      /\ DOMAIN [s EXCEPT ![n] = x] = DOMAIN s
  BY <1>2
<1> QED BY <1>3

\* The log only grows; it may have grown by one entry.
Grows ==
    /\ Len(log) \in Nat /\ DOMAIN log = 1 .. Len(log)
    /\ Len(log') \in Nat /\ DOMAIN log' = 1 .. Len(log') /\ Len(log) <= Len(log')
    /\ \A i \in DOMAIN log : log'[i] = log[i]

\* It grows by an entry, or is left alone.
LEMMA LogKept ==
    ASSUME \E S : log \in Seq(S)
    PROVE  /\ UNCHANGED log => Grows
           /\ \A e : log' = Append(log, e) =>
                /\ Grows /\ Len(log') = Len(log) + 1 /\ log'[Len(log) + 1] = e
                /\ DOMAIN log' = DOMAIN log \cup {Len(log) + 1}
<1>1. PICK S : log \in Seq(S)
  OBVIOUS
<1>2. Len(log) \in Nat /\ DOMAIN log = 1 .. Len(log)
  BY <1>1
<1>3. ASSUME UNCHANGED log PROVE Grows
  BY <1>2, <1>3 DEF Grows
<1>4. ASSUME NEW e, log' = Append(log, e)
      PROVE  /\ Grows /\ Len(log') = Len(log) + 1 /\ log'[Len(log) + 1] = e
             /\ DOMAIN log' = DOMAIN log \cup {Len(log) + 1}
  <2>1. /\ Len(log') = Len(log) + 1 /\ DOMAIN log' = 1 .. (Len(log) + 1)
        /\ log'[Len(log) + 1] = e /\ \A i \in 1 .. Len(log) : log'[i] = log[i]
    BY <1>1, <1>4
  <2> QED BY <1>2, <2>1 DEF Grows
<1> QED BY <1>3, <1>4

\* Profiles are added; one that is there keeps its user, and its tier unless it is approved anew.
ProfilesGrow ==
    \A i \in DOMAIN profiles :
        /\ i \in DOMAIN profiles' /\ profiles'[i].user = profiles[i].user
        /\ \/ profiles'[i].tier = profiles[i].tier
           \/ \E k \in DOMAIN log' : Verified(k, profiles[i].user, profiles[i].tier)'

\* What is on record about a request or a row does not go away.
LEMMA Persists ==
    ASSUME Grows, ProfilesGrow, IsFiniteSet(DOMAIN profiles'), NEW r
    PROVE  /\ Undetected(r) => Undetected(r)'
           /\ r.since \in Nat /\ r.since <= Len(log) /\ Approved(r) => Approved(r)'
           /\ Known(r.user) => Known(r.user)'
           /\ Exempt(r.user) => Exempt(r.user)'
<1>1. Undetected(r) => Undetected(r)'
  BY DEF Undetected, Grows
<1>2. ASSUME r.since \in Nat, r.since <= Len(log), Approved(r) PROVE Approved(r)'
  <2>1. PICK k \in DOMAIN log :
          /\ log[k].op = "verify" /\ log[k].user = r.user /\ r.amount <= Limits(log[k].tier).single
          /\ \A j \in 1 .. r.since : (log[j].op = "resubmit" /\ log[j].user = r.user) => j < k
    BY <1>2 DEF Approved
  <2>2. k \in DOMAIN log' /\ log'[k] = log[k]
    BY DEF Grows
  <2>3. \A j \in 1 .. r.since : log'[j] = log[j]
    BY <1>2 DEF Grows
  <2> QED BY <2>1, <2>2, <2>3 DEF Approved
<1>3. \A k \in DOMAIN log : k \in DOMAIN log' /\ log'[k] = log[k]
  BY DEF Grows
<1>4. ASSUME Known(r.user) PROVE Known(r.user)'
  <2>1. PICK i \in ProfilesOf(r.user), k \in DOMAIN log : Verified(k, r.user, profiles[i].tier)
    BY <1>4 DEF Known
  <2>2. i \in ProfilesOf(r.user)'
    BY <2>1 DEF ProfilesOf, ProfilesGrow
  <2>3. CASE profiles'[i].tier = profiles[i].tier
    BY <1>3, <2>1, <2>2, <2>3 DEF Known, Verified
  <2>4. CASE \E m \in DOMAIN log' : Verified(m, profiles[i].user, profiles[i].tier)'
    BY <2>1, <2>2, <2>4 DEF Known, Verified, ProfilesOf
  <2> QED BY <2>1, <2>3, <2>4 DEF ProfilesOf, ProfilesGrow
<1>5. ASSUME Exempt(r.user) PROVE Exempt(r.user)'
  <2>1. CASE Cardinality(ProfilesOf(r.user)) > 1
    <3>1. ProfilesOf(r.user) \subseteq ProfilesOf(r.user)' /\ IsFiniteSet(ProfilesOf(r.user)')
      BY FS_Subset DEF ProfilesOf, ProfilesGrow
    <3>2. /\ Cardinality(ProfilesOf(r.user)) <= Cardinality(ProfilesOf(r.user)')
          /\ Cardinality(ProfilesOf(r.user)) \in Nat /\ Cardinality(ProfilesOf(r.user)') \in Nat
      BY <3>1, FS_Subset, FS_CardinalityType
    <3> QED BY <2>1, <3>2 DEF Exempt
  <2>2. CASE \E k \in DOMAIN log : /\ log[k].op = "verify" /\ log[k].user = r.user
                                   /\ log[k].tier \notin DOMAIN TierLimits
    BY <1>3, <2>2 DEF Exempt
  <2> QED BY <1>5, <2>1, <2>2 DEF Exempt
<1> QED BY <1>1, <1>2, <1>4, <1>5

\* What a call has established stays, whatever others do.
LEMMA PassedStays ==
    ASSUME Grows, ProfilesGrow, IsFiniteSet(DOMAIN profiles'), NEW l, NEW r, Passed(l, r)
    PROVE  Passed(l, r)'
BY Persists DEF Passed, Before, Undetected

\* What is left to show of a step: the ranges, what the tables of profiles and jurisdictions
\* rest on, and what the calls that move and the rows that are new have established.
LEMMA Assemble ==
    ASSUME ClearInv, Grows, ProfilesGrow, IsFiniteSet(DOMAIN profiles'),
           Ranges', \A i \in DOMAIN profiles' : Backed(i)', Detections',
           \A c \in Calls : \/ pc'[c] = pc[c] /\ req'[c] = req[c]
                            \/ Passed(pc[c], req[c])',
           \A n \in DOMAIN transactions' :
               \/ n \in DOMAIN transactions /\ /\ transactions'[n].user = transactions[n].user
                                               /\ transactions'[n].amount = transactions[n].amount
                                               /\ transactions'[n].since = transactions[n].since
                                               /\ transactions'[n].unlimited = transactions[n].unlimited
               \/ Paid(n)'
    PROVE  ClearInv'
<1>1. ASSUME NEW c \in Calls, pc'[c] = pc[c], req'[c] = req[c] PROVE Passed(pc[c], req[c])'
  <2>1. PICK l, r : l = pc[c] /\ r = req[c]
    OBVIOUS
  <2>2. Passed(l, r)
    BY <2>1 DEF ClearInv
  <2>3. Passed(l, r)'
    BY <2>2, PassedStays
  <2> QED BY <1>1, <2>1, <2>3
<1>2. ASSUME NEW n \in DOMAIN transactions,
             transactions'[n].user = transactions[n].user, transactions'[n].amount = transactions[n].amount,
             transactions'[n].since = transactions[n].since, transactions'[n].unlimited = transactions[n].unlimited
      PROVE  Paid(n)'
  <2>1. PICK r : r = transactions[n]
    OBVIOUS
  <2>2. Undetected(r) /\ Approved(r) /\ (r.unlimited => Exempt(r.user))
    BY <2>1 DEF ClearInv, Paid
  <2>3. Undetected(r)' /\ Approved(r)' /\ (r.unlimited => Exempt(r.user)')
    BY <2>2, Persists DEF Undetected
  <2>4. PICK q : q = transactions'[n]
    OBVIOUS
  <2>5. q.user = r.user /\ q.amount = r.amount /\ q.since = r.since /\ q.unlimited = r.unlimited
    BY <1>2, <2>1, <2>4
  <2>6. Undetected(q)' /\ Approved(q)'
    BY <2>3, <2>5 DEF Undetected, Approved
  <2>7. q.unlimited => Exempt(q.user)'
    BY <2>3, <2>5
  <2> QED BY <2>4, <2>6, <2>7 DEF Paid
<1> QED BY <1>1, <1>2 DEF ClearInv

-----------------------------------------------------------------------------
\* Limits are numbers, and only tiers without an entry have a daily limit of 0.
LEMMA LimitsAreNumbers ==
    \A t : /\ Limits(t).single \in Nat /\ Limits(t).daily \in Nat
           /\ Limits(t).daily = 0 => t \notin DOMAIN TierLimits
<1>1. DOMAIN TierLimits = 1 .. 4
  BY DEF TierLimits
<1>2. \A t \in 1 .. 4 : /\ TierLimits[t].single \in Nat /\ TierLimits[t].daily \in Nat
                        /\ TierLimits[t].daily # 0
  <2>1. \A t \in 1 .. 4 : t = 1 \/ t = 2 \/ t = 3 \/ t = 4
    OBVIOUS
  <2> QED BY <2>1 DEF TierLimits
<1> QED BY <1>1, <1>2 DEF Limits

\* Two different things are two.
LEMMA PairSize ==
    ASSUME NEW i, NEW j, i # j PROVE Cardinality({i, j}) = 2
<1>1. Cardinality({i}) = 1 /\ IsFiniteSet({i})
  BY FS_Singleton
<1>2. Cardinality({i} \cup {j}) = Cardinality({i}) + 1
  BY <1>1, FS_AddElement
<1>3. {i} \cup {j} = {i, j}
  OBVIOUS
<1> QED BY <1>1, <1>2, <1>3

-----------------------------------------------------------------------------
\* Profiles and jurisdictions that a step leaves alone rest on what they rested on.
LEMMA BackedStays ==
    ASSUME ClearInv, UNCHANGED <<profiles, log>>
    PROVE  \A i \in DOMAIN profiles' : Backed(i)'
BY DEF ClearInv, Backed, Verified

\* The same of detections.
LEMMA DetectionsStay ==
    ASSUME ClearInv, UNCHANGED <<jurisdictions, log>>
    PROVE  Detections'
BY DEF ClearInv, Detections, IsGeoBlocked

\* The indices of the profiles are finitely many.
LEMMA ProfilesFinite ==
    KycTypeOK => IsFiniteSet(DOMAIN profiles) /\ Len(profiles) \in Nat /\ DOMAIN profiles = 1 .. Len(profiles)
<1> SUFFICES ASSUME KycTypeOK
             PROVE  IsFiniteSet(DOMAIN profiles) /\ Len(profiles) \in Nat /\ DOMAIN profiles = 1 .. Len(profiles)
  OBVIOUS
<1>1. Len(profiles) \in Nat /\ DOMAIN profiles = 1 .. Len(profiles)
  BY DEF KycTypeOK
<1> QED BY <1>1, FS_Interval

\* Steps beside the tables: one call moves, to where it has established what it needs.
LEMMA CallMoves ==
    ASSUME OwnInv, ClearInv, UNCHANGED <<profiles, jurisdictions, log, transactions>>,
           Ranges', NEW c \in Calls,
           \A d \in Calls \ {c} : pc'[d] = pc[d] /\ req'[d] = req[d],
           Passed(pc[c], req[c])'
    PROVE  ClearInv'
<1>1. Grows
  BY LogKept DEF OwnInv, Tables
<1>2. ProfilesGrow
  BY DEF ProfilesGrow
<1>3. IsFiniteSet(DOMAIN profiles')
  BY ProfilesFinite DEF ClearInv, Ranges
<1> QED BY <1>1, <1>2, <1>3, BackedStays, DetectionsStay, Assemble

\* An idle call has nothing to establish, and so has a call that has left the checks behind.
LEMMA NothingToPass ==
    ASSUME NEW l \in {"idle"} \cup After, NEW r PROVE Passed(l, r)'
BY DEF Passed, Before, After

\* Ranges of a step that moves one call.
LEMMA MoveRanges ==
    ASSUME ClearInv, NEW c \in Calls,
           NEW l \in {"idle", "profile", "detect"} \cup Before \cup After,
           pc' = [pc EXCEPT ![c] = l], failures' = failures \/ Failing,
           UNCHANGED <<profiles, jurisdictions, monitors>>, Len(transactions') = Len(transactions)
    PROVE  Ranges'
<1>1. failures' \in 0 .. MaxFailures
  BY CallsAssumption DEF ClearInv, Ranges, Failing
<1>2. pc' \in [Calls -> {"idle", "profile", "detect", "kyc", "limits", "daily", "commit", "travel",
                         "clearing", "clearing_id", "l1", "hash"}]
  BY DEF ClearInv, Ranges, Before, After
<1>3. KycTypeOK' /\ JurisdictionsTypeOK'
  BY DEF ClearInv, Ranges, KycTypeOK, JurisdictionsTypeOK
<1> QED BY <1>1, <1>2, <1>3 DEF ClearInv, Ranges

\* A payment enters: it is not blocked, so its user has not been detected.
LEMMA BeginPaymentClears ==
    ASSUME OwnInv, ClearInv, NEW c \in Calls, NEW u \in Users, NEW a \in Amounts, BeginPayment(c, u, a)
    PROVE  ClearInv'
<1>0. PICK r : r = [op |-> "pay", user |-> u, amount |-> a, since |-> Len(log)]
  OBVIOUS
<1>1. /\ pc' = [pc EXCEPT ![c] = "kyc"] /\ req' = [req EXCEPT ![c] = r]
      /\ UNCHANGED <<profiles, jurisdictions, log, transactions, monitors, failures>>
      /\ ~IsGeoBlocked(u)
  BY <1>0 DEF BeginPayment
<1>2. Ranges'
  BY <1>1, MoveRanges DEF Before
<1>3. Len(log) \in Nat /\ DOMAIN log = 1 .. Len(log)
  BY DEF OwnInv, Tables
<1>4. jurisdictions[u] = NoRow
  BY <1>1 DEF ClearInv, Detections
<1>5. \A i \in 1 .. Len(log) : ~(log[i].op = "detect" /\ log[i].user = u)
  BY <1>3, <1>4 DEF ClearInv, Detections
<1>6. Undetected(r)'
  BY <1>0, <1>1, <1>3, <1>5 DEF Undetected
<1>7. Passed("kyc", r)'
  BY <1>0, <1>6 DEF Passed
<1>8. pc'[c] = "kyc" /\ req'[c] = r /\ \A d \in Calls \ {c} : pc'[d] = pc[d] /\ req'[d] = req[d]
  BY <1>1 DEF OwnInv
<1>9. Passed(pc[c], req[c])'
  BY <1>7, <1>8
<1> QED BY <1>1, <1>2, <1>8, <1>9, CallMoves

\* A check passes a call on at most to the next place.
LEMMA CheckClears ==
    ASSUME OwnInv, ClearInv, NEW c \in Calls,
           UNCHANGED <<profiles, jurisdictions, log, transactions, monitors>>,
           failures' = failures \/ Failing,
           NEW l \in {"idle"} \cup Before, NEW r, l \in Before => Passed(l, r),
           pc' = [pc EXCEPT ![c] = l], req'[c] = r, \A d \in Calls \ {c} : req'[d] = req[d]
    PROVE  ClearInv'
<1>1. Ranges'
  BY MoveRanges
<1>2. pc'[c] = l /\ req'[c] = r /\ \A d \in Calls \ {c} : pc'[d] = pc[d] /\ req'[d] = req[d]
  BY DEF OwnInv
<1>3. l \in Before => Passed(l, r)'
  BY DEF Passed, Undetected, Approved, Known, Exempt, Verified, ProfilesOf
<1>4. Passed(l, r)'
  BY <1>3, NothingToPass
<1>5. Passed(pc[c], req[c])'
  BY <1>2, <1>4
<1> QED BY <1>1, <1>2, <1>5, CallMoves

\* The KYC check: the row it reads is approved, by an approval that is later than every
\* submission on record, and so than every one before the call.
LEMMA CheckKycClears ==
    ASSUME OwnInv, ClearInv, NEW c \in Calls, NEW i \in DOMAIN profiles, CheckKyc(c, i)
    PROVE  ClearInv'
<1>1. PICK r : r = req[c]
  OBVIOUS
<1>2. pc[c] = "kyc" /\ Passed("kyc", r) /\ Asked(r)
  BY <1>1 DEF CheckKyc, ClearInv, OwnInv, Before
<1>3. CASE KycRequired(i, r.amount)
  <2>1. /\ pc' = [pc EXCEPT ![c] = "idle"] /\ req'[c] = NoRequest
        /\ \A d \in Calls \ {c} : req'[d] = req[d]
        /\ UNCHANGED <<profiles, jurisdictions, log, transactions, monitors, failures>>
    BY <1>1, <1>3 DEF CheckKyc, OwnInv
  <2> QED BY <2>1, CheckClears DEF Before
<1>4. CASE ~KycRequired(i, r.amount)
  <2>1. /\ pc' = [pc EXCEPT ![c] = "limits"] /\ UNCHANGED req
        /\ UNCHANGED <<profiles, jurisdictions, log, transactions, monitors, failures>>
        /\ i \in ProfilesOf(r.user)
    BY <1>1, <1>4 DEF CheckKyc, OwnInv
  <2>2. profiles[i].status = "approved" /\ profiles[i].user = r.user
        /\ ~(r.amount > Limits(profiles[i].tier).single)
    BY <1>4, <2>1 DEF KycRequired, ProfilesOf
  <2>3. PICK k \in DOMAIN log :
          /\ Verified(k, r.user, profiles[i].tier)
          /\ \A j \in DOMAIN log : (log[j].op = "resubmit" /\ log[j].user = r.user) => j < k
    BY <2>2 DEF ClearInv, Backed
  <2>4. r.amount <= Limits(profiles[i].tier).single
    <3>1. r.amount \in Nat
      BY <1>2, PaymentAssumption DEF Asked
    <3>2. Limits(profiles[i].tier).single \in Nat
      BY LimitsAreNumbers
    <3> QED BY <2>2, <3>1, <3>2
  <2>5. 1 .. r.since \subseteq DOMAIN log
    BY <1>2 DEF Passed, Undetected, Before, OwnInv, Tables
  <2>6. Approved(r)
    BY <2>3, <2>4, <2>5 DEF Approved, Verified
  <2>7. Known(r.user)
    BY <2>1, <2>3 DEF Known
  <2>8. Passed("limits", r)
    BY <1>2, <2>6, <2>7 DEF Passed, Before
  <2> QED BY <1>1, <2>1, <2>8, CheckClears DEF Before
<1> QED BY <1>3, <1>4

\* getTransactionLimits: a limit of 0 is of a tier that no approval gave to this row, which is
\* then not the row the KYC check has seen, or of an unknown tier.
LEMMA ReadLimitsClears ==
    ASSUME OwnInv, ClearInv, NEW c \in Calls, NEW i \in DOMAIN profiles, ReadLimits(c, i)
    PROVE  ClearInv'
<1>1. PICK r : r = req[c]
  OBVIOUS
<1>2. pc[c] = "limits" /\ Passed("limits", r) /\ Asked(r) /\ i \in ProfilesOf(r.user)
  BY <1>1 DEF ReadLimits, ClearInv, OwnInv, Before
<1>3. PICK limits : limits = Limits(profiles[i].tier)
  OBVIOUS
<1>4. CASE limits.single > 0 /\ r.amount > limits.single
  <2>1. /\ pc' = [pc EXCEPT ![c] = "idle"] /\ req'[c] = NoRequest
        /\ \A d \in Calls \ {c} : req'[d] = req[d]
        /\ UNCHANGED <<profiles, jurisdictions, log, transactions, monitors, failures>>
    BY <1>1, <1>3, <1>4 DEF ReadLimits, OwnInv
  <2> QED BY <2>1, CheckClears DEF Before
<1>5. CASE ~(limits.single > 0 /\ r.amount > limits.single)
  <2>1. PICK q : q = With(r, [daily |-> limits.daily])
    OBVIOUS
  <2>2. /\ pc' = [pc EXCEPT ![c] = "daily"] /\ req'[c] = q
        /\ \A d \in Calls \ {c} : req'[d] = req[d]
        /\ UNCHANGED <<profiles, jurisdictions, log, transactions, monitors, failures>>
    BY <1>1, <1>3, <1>5, <2>1 DEF ReadLimits, OwnInv
  <2>3. q.user = r.user /\ q.amount = r.amount /\ q.since = r.since /\ q.daily = limits.daily
    BY <1>2, <2>1 DEF With, Asked
  <2>4. ASSUME q.daily = 0 PROVE Exempt(r.user)
    <3>1. profiles[i].tier \notin DOMAIN TierLimits
      BY <1>3, <2>3, <2>4, LimitsAreNumbers
    <3>2. PICK j \in ProfilesOf(r.user), k \in DOMAIN log : Verified(k, r.user, profiles[j].tier)
      BY <1>2 DEF Passed, Known
    <3>3. CASE j = i
      BY <3>1, <3>2, <3>3 DEF Exempt, Verified
    <3>4. CASE j # i
      <4>1. IsFiniteSet(ProfilesOf(r.user))
        BY ProfilesFinite, FS_Subset DEF ClearInv, Ranges, ProfilesOf
      <4>2. {i, j} \subseteq ProfilesOf(r.user) /\ Cardinality({i, j}) = 2
        BY <1>2, <3>2, <3>4, PairSize
      <4>3. 2 <= Cardinality(ProfilesOf(r.user)) /\ Cardinality(ProfilesOf(r.user)) \in Nat
        BY <4>1, <4>2, FS_Subset, FS_CardinalityType
      <4> QED BY <4>3 DEF Exempt
    <3> QED BY <3>3, <3>4
  <2>5. Undetected(q) /\ Approved(q) /\ Known(q.user) /\ q.user \in Users
    BY <1>2, <2>3 DEF Passed, Undetected, Approved, Before
  <2>6. Passed("daily", q)
    BY <2>3, <2>4, <2>5 DEF Passed
  <2> QED BY <2>2, <2>6, CheckClears DEF Before
<1> QED BY <1>4, <1>5

\* The daily check changes nothing that the call has established.
LEMMA CheckDailyClears ==
    ASSUME OwnInv, ClearInv, NEW c \in Calls, CheckDaily(c) \/ RefuseUnknown(c) \/ FailBefore(c)
    PROVE  ClearInv'
<1>1. PICK r : r = req[c]
  OBVIOUS
<1>2. CASE /\ pc' = [pc EXCEPT ![c] = "idle"] /\ req' = [req EXCEPT ![c] = NoRequest]
           /\ UNCHANGED <<profiles, jurisdictions, log, transactions, monitors>>
           /\ failures' = failures \/ Failing
  <2>1. req'[c] = NoRequest /\ \A d \in Calls \ {c} : req'[d] = req[d]
    BY <1>2 DEF OwnInv
  <2> QED BY <1>2, <2>1, CheckClears DEF Before
<1>3. CASE /\ pc[c] = "daily" /\ pc' = [pc EXCEPT ![c] = "commit"] /\ UNCHANGED req
           /\ UNCHANGED <<profiles, jurisdictions, log, transactions, monitors, failures>>
  <2>1. Passed("daily", r)
    BY <1>1, <1>3 DEF ClearInv
  <2>2. Passed("commit", r)
    BY <2>1 DEF Passed, Before
  <2> QED BY <1>1, <1>3, <2>2, CheckClears DEF Before
<1>4. CASE CheckDaily(c)
  BY <1>2, <1>3, <1>4 DEF CheckDaily
<1>5. CASE RefuseUnknown(c)
  BY <1>2, <1>5 DEF RefuseUnknown
<1>6. CASE FailBefore(c)
  BY <1>2, <1>6 DEF FailBefore
<1> QED BY <1>4, <1>5, <1>6

-----------------------------------------------------------------------------
\* COMMIT writes what the call has established into a row of its own.
LEMMA CommitClears ==
    ASSUME OwnInv, OwnInv', ClearInv, NEW c \in Calls, CommitPayment(c)
    PROVE  ClearInv'
<1>1. PICK r : r = req[c]
  OBVIOUS
<1>2. Passed("commit", r)
  BY <1>1 DEF CommitPayment, ClearInv
<1>3. PICK row : row = [user |-> r.user, amount |-> r.amount, unlimited |-> r.daily = 0,
                        since |-> r.since, clearing_id |-> FALSE, blockchain_hash |-> FALSE,
                        travel |-> "unknown"]
  OBVIOUS
<1>4. /\ pc' = [pc EXCEPT ![c] = "travel"] /\ transactions' = Append(transactions, row)
      /\ monitors' = Append(monitors, [at |-> "velocity", found |-> <<>>])
      /\ UNCHANGED <<profiles, jurisdictions, log, failures>>
      /\ \A d \in Calls \ {c} : pc'[d] = pc[d] /\ req'[d] = req[d]
  BY <1>1, <1>3 DEF CommitPayment, OwnInv
<1>5. /\ transactions \in Seq(Rows) /\ Len(transactions') = Len(transactions) + 1
      /\ DOMAIN transactions' = DOMAIN transactions \cup {Len(transactions) + 1}
      /\ transactions'[Len(transactions) + 1] = row
      /\ \A n \in DOMAIN transactions : transactions'[n] = transactions[n]
  BY <1>4 DEF OwnInv, Tables
<1>6. Ranges'
  <2>1. PICK S : monitors \in Seq(S)
    BY DEF ClearInv, Ranges
  <2>2. PICK e : e = [at |-> "velocity", found |-> <<>>]
    OBVIOUS
  <2>3. monitors' \in Seq(S \cup {e}) /\ Len(monitors') = Len(monitors) + 1
    BY <1>4, <2>1, <2>2
  <2>4. pc' \in [Calls -> {"idle", "profile", "detect", "kyc", "limits", "daily", "commit", "travel",
                           "clearing", "clearing_id", "l1", "hash"}]
    BY <1>4 DEF ClearInv, Ranges
  <2>5. KycTypeOK' /\ JurisdictionsTypeOK'
    BY <1>4 DEF ClearInv, Ranges, KycTypeOK, JurisdictionsTypeOK
  <2> QED BY <1>4, <1>5, <2>3, <2>4, <2>5 DEF ClearInv, Ranges
<1>7. Undetected(r) /\ Approved(r) /\ (r.daily = 0 => Exempt(r.user))
  BY <1>2 DEF Passed, Before
<1>8. row.user = r.user /\ row.amount = r.amount /\ row.since = r.since /\ (row.unlimited <=> r.daily = 0)
  BY <1>3
<1>9. Undetected(row) /\ Approved(row)
  BY <1>7, <1>8 DEF Undetected, Approved
<1>10. row.unlimited => Exempt(row.user)
  BY <1>7, <1>8
<1>11. Undetected(row)' /\ Approved(row)'
  BY <1>4, <1>9 DEF Undetected, Approved
<1>12. row.unlimited => Exempt(row.user)'
  BY <1>4, <1>10 DEF Exempt, ProfilesOf
<1>13. PICK m : m = Len(transactions) + 1
  OBVIOUS
<1>14. Paid(m)'
  <2>1. transactions'[m] = row
    BY <1>5, <1>13
  <2> QED BY <1>11, <1>12, <2>1 DEF Paid
<1>15. \A n \in DOMAIN transactions' : n \in DOMAIN transactions \/ Paid(n)'
  BY <1>5, <1>13, <1>14
<1>16. Passed(pc[c], req[c])'
  <2>1. pc'[c] = "travel"
    BY <1>4 DEF OwnInv
  <2> QED BY <2>1, NothingToPass DEF After
<1>17. Grows /\ ProfilesGrow
  BY <1>4, LogKept DEF OwnInv, Tables, ProfilesGrow
<1>18. IsFiniteSet(DOMAIN profiles')
  BY <1>4, ProfilesFinite DEF ClearInv, Ranges
<1>19. /\ \A i \in DOMAIN profiles' : Backed(i)'
       /\ Detections'
  BY <1>4, BackedStays, DetectionsStay
<1> QED BY <1>4, <1>5, <1>6, <1>15, <1>16, <1>17, <1>18, <1>19, Assemble

\* After COMMIT a step marks the row of the call at most, in columns that payments do not rest on.
LEMMA AftermathClears ==
    ASSUME OwnInv, OwnInv', ClearInv, NEW c \in Calls,
           \/ TravelRule(c) \/ RecordClearing(c) \/ RecordHash(c)
           \/ \E arrives, answered \in BOOLEAN : SubmitClearing(c, arrives, answered)
                                                 \/ SendL1(c, arrives, answered)
    PROVE  ClearInv'
<1>1. PICK l \in {"idle"} \cup After : pc' = [pc EXCEPT ![c] = l]
  BY DEF TravelRule, RecordClearing, RecordHash, SubmitClearing, SendL1, After
<1>2. /\ failures' = failures \/ Failing
      /\ UNCHANGED <<profiles, jurisdictions, monitors, log>>
  BY DEF TravelRule, RecordClearing, RecordHash, SubmitClearing, SendL1
<1>3. \A d \in Calls \ {c} : pc'[d] = pc[d] /\ req'[d] = req[d]
  <2>1. req' = req \/ req' = [req EXCEPT ![c] = NoRequest]
    BY DEF TravelRule, RecordClearing, RecordHash, SubmitClearing, SendL1
  <2> QED BY <1>1, <2>1 DEF OwnInv
<1>4. \/ transactions' = transactions
      \/ \E x : transactions' = [transactions EXCEPT ![Mine(c)].travel = x]
      \/ transactions' = [transactions EXCEPT ![Mine(c)].clearing_id = TRUE]
      \/ transactions' = [transactions EXCEPT ![Mine(c)].blockchain_hash = TRUE]
  BY DEF TravelRule, RecordClearing, RecordHash, SubmitClearing, SendL1
<1>5. transactions \in Seq(Rows)
  BY DEF OwnInv, Tables
<1>6. Len(transactions') = Len(transactions) /\ DOMAIN transactions' = DOMAIN transactions
  BY <1>4, <1>5
<1>7. ASSUME NEW n \in DOMAIN transactions
      PROVE  /\ transactions'[n].user = transactions[n].user
             /\ transactions'[n].amount = transactions[n].amount
             /\ transactions'[n].since = transactions[n].since
             /\ transactions'[n].unlimited = transactions[n].unlimited
  <2>1. transactions[n] \in Rows
    BY <1>5
  <2>2. CASE transactions' = transactions
    BY <2>2
  <2>3. ASSUME NEW x, transactions' = [transactions EXCEPT ![Mine(c)].travel = x]
        PROVE  \/ transactions'[n] = transactions[n]
               \/ transactions'[n] = [transactions[n] EXCEPT !.travel = x]
    BY <1>5, <2>3
  <2>4. CASE transactions' = [transactions EXCEPT ![Mine(c)].clearing_id = TRUE]
    <3>1. \/ transactions'[n] = transactions[n]
          \/ transactions'[n] = [transactions[n] EXCEPT !.clearing_id = TRUE]
      BY <1>5, <2>4
    <3> QED BY <2>1, <3>1 DEF Rows
  <2>5. CASE transactions' = [transactions EXCEPT ![Mine(c)].blockchain_hash = TRUE]
    <3>1. \/ transactions'[n] = transactions[n]
          \/ transactions'[n] = [transactions[n] EXCEPT !.blockchain_hash = TRUE]
      BY <1>5, <2>5
    <3> QED BY <2>1, <3>1 DEF Rows
  <2>6. ASSUME NEW x, transactions' = [transactions EXCEPT ![Mine(c)].travel = x]
        PROVE  /\ transactions'[n].user = transactions[n].user
               /\ transactions'[n].amount = transactions[n].amount
               /\ transactions'[n].since = transactions[n].since
               /\ transactions'[n].unlimited = transactions[n].unlimited
    BY <2>1, <2>3, <2>6 DEF Rows
  <2> QED BY <1>4, <2>2, <2>4, <2>5, <2>6
<1>8. Ranges'
  BY <1>1, <1>2, <1>6, MoveRanges
<1>9. Passed(pc[c], req[c])'
  <2>1. pc'[c] = l
    BY <1>1 DEF OwnInv
  <2> QED BY <2>1, NothingToPass
<1>10. Grows /\ ProfilesGrow
  BY <1>2, LogKept DEF OwnInv, Tables, ProfilesGrow
<1>11. IsFiniteSet(DOMAIN profiles')
  BY <1>2, ProfilesFinite DEF ClearInv, Ranges
<1>12. (\A i \in DOMAIN profiles' : Backed(i)') /\ Detections'
  BY <1>2, BackedStays, DetectionsStay
<1> QED BY <1>3, <1>6, <1>7, <1>8, <1>9, <1>10, <1>11, <1>12, Assemble

-----------------------------------------------------------------------------
\* The rows of kyc_profiles.
Profiles == [user : Users, status : {"pending", "approved"}, tier : {0} \cup Tiers,
             screened : BOOLEAN, pep : BOOLEAN]

\* Steps that write profiles or jurisdictions and the log, and end at most one call.
LEMMA TablesMove ==
    ASSUME OwnInv, ClearInv, Grows, ProfilesGrow, KycTypeOK', JurisdictionsTypeOK',
           \A i \in DOMAIN profiles' : Backed(i)', Detections',
           UNCHANGED <<failures, monitors, transactions>>,
           \/ UNCHANGED <<pc, req>>
           \/ \E c \in Calls : /\ pc' = [pc EXCEPT ![c] = "idle"]
                               /\ \A d \in Calls \ {c} : req'[d] = req[d]
           \/ \E c \in Calls, l \in {"profile", "detect"} : \E r :
                /\ pc' = [pc EXCEPT ![c] = l] /\ req' = [req EXCEPT ![c] = r] /\ r.user \in Users
    PROVE  ClearInv'
<1>1. IsFiniteSet(DOMAIN profiles')
  <2>1. Len(profiles') \in Nat /\ DOMAIN profiles' = 1 .. Len(profiles')
    BY DEF KycTypeOK
  <2> QED BY <2>1, FS_Interval
<1>2. pc' \in [Calls -> {"idle", "profile", "detect", "kyc", "limits", "daily", "commit", "travel",
                         "clearing", "clearing_id", "l1", "hash"}]
  BY DEF ClearInv, Ranges
<1>3. Ranges'
  BY <1>2 DEF ClearInv, Ranges
<1>4. CASE UNCHANGED <<pc, req>>
  BY <1>1, <1>3, <1>4, Assemble
<1>5. ASSUME NEW c \in Calls, pc' = [pc EXCEPT ![c] = "idle"], \A d \in Calls \ {c} : req'[d] = req[d]
      PROVE  ClearInv'
  <2>1. pc'[c] = "idle" /\ \A d \in Calls \ {c} : pc'[d] = pc[d] /\ req'[d] = req[d]
    BY <1>5 DEF OwnInv
  <2>2. Passed(pc[c], req[c])'
    BY <2>1, NothingToPass
  <2> QED BY <1>1, <1>3, <2>1, <2>2, Assemble
<1>6. ASSUME NEW c \in Calls, NEW l \in {"profile", "detect"}, NEW r,
             pc' = [pc EXCEPT ![c] = l], req' = [req EXCEPT ![c] = r], r.user \in Users
      PROVE  ClearInv'
  <2>1. pc'[c] = l /\ req'[c] = r /\ \A d \in Calls \ {c} : pc'[d] = pc[d] /\ req'[d] = req[d]
    BY <1>6 DEF OwnInv
  <2>2. Passed(l, r)'
    BY <1>6 DEF Passed, Before
  <2>3. Passed(pc[c], req[c])'
    BY <2>1, <2>2
  <2> QED BY <1>1, <1>3, <2>1, <2>3, Assemble
<1> QED BY <1>4, <1>5, <1>6

\* An approval on record stays on record.
LEMMA VerifiedStays ==
    ASSUME Grows, NEW k \in DOMAIN log, NEW u, NEW t, Verified(k, u, t)
    PROVE  k \in DOMAIN log' /\ Verified(k, u, t)'
BY DEF Grows, Verified

\* A submission ends: UPDATE withdraws the approval of every row of its user, INSERT adds a row
\* without one.
LEMMA WriteProfileClears ==
    ASSUME OwnInv, ClearInv, NEW c \in Calls, WriteProfile(c), UNCHANGED <<jurisdictions, aftermath>>
    PROVE  ClearInv'
<1>1. PICK u : u = req[c].user
  OBVIOUS
<1>2. u \in Users
  <2>1. Passed("profile", req[c])
    BY DEF WriteProfile, ClearInv
  <2> QED BY <1>1, <2>1 DEF Passed
<1>3. /\ pc' = [pc EXCEPT ![c] = "idle"] /\ \A d \in Calls \ {c} : req'[d] = req[d]
      /\ UNCHANGED <<failures, monitors, transactions, jurisdictions>>
  BY DEF WriteProfile, OwnInv
<1>4. profiles \in Seq(Profiles) /\ Len(profiles) \in Nat /\ DOMAIN profiles = 1 .. Len(profiles)
  BY DEF ClearInv, Ranges, KycTypeOK, Profiles
<1>5. JurisdictionsTypeOK'
  BY <1>3 DEF ClearInv, Ranges, JurisdictionsTypeOK
<1>6. CASE /\ profiles' = [i \in DOMAIN profiles |->
                             IF i \in ProfilesOf(u) THEN [profiles[i] EXCEPT !.status = "pending"]
                                                    ELSE profiles[i]]
           /\ log' = Append(log, [op |-> "resubmit", user |-> u])
  <2>1. PICK e : e = [op |-> "resubmit", user |-> u]
    OBVIOUS
  <2>2. /\ Grows /\ log'[Len(log) + 1] = e /\ DOMAIN log' = DOMAIN log \cup {Len(log) + 1}
    BY <1>6, <2>1, LogKept DEF OwnInv, Tables
  <2>3. e.op = "resubmit" /\ e.user = u
    BY <2>1
  <2>4. \A i \in DOMAIN profiles :
          /\ profiles[i] \in Profiles /\ profiles'[i] \in Profiles
          /\ profiles'[i].user = profiles[i].user /\ profiles'[i].tier = profiles[i].tier
          /\ profiles'[i].status = "approved" => /\ profiles[i].status = "approved"
                                                 /\ profiles[i].user # u
    <3> SUFFICES ASSUME NEW i \in DOMAIN profiles
                 PROVE  /\ profiles[i] \in Profiles /\ profiles'[i] \in Profiles
                        /\ profiles'[i].user = profiles[i].user /\ profiles'[i].tier = profiles[i].tier
                        /\ profiles'[i].status = "approved" => /\ profiles[i].status = "approved"
                                                               /\ profiles[i].user # u
      OBVIOUS
    <3>1. profiles[i] \in Profiles
      BY <1>4
    <3>2. CASE profiles[i].user = u
      <4>1. profiles'[i] = [profiles[i] EXCEPT !.status = "pending"]
        BY <1>6, <3>2 DEF ProfilesOf
      <4> QED BY <3>1, <4>1 DEF Profiles
    <3>3. CASE profiles[i].user # u
      <4>1. profiles'[i] = profiles[i]
        BY <1>6, <3>3 DEF ProfilesOf
      <4> QED BY <3>1, <3>3, <4>1
    <3> QED BY <3>2, <3>3
  <2>5. DOMAIN profiles' = DOMAIN profiles
    BY <1>6
  <2>6. profiles' \in Seq(Profiles)
    <3>1. profiles' = [i \in 1 .. Len(profiles) |-> profiles'[i]]
      BY <1>4, <1>6
    <3> QED BY <1>4, <2>4, <3>1
  <2>7. KycTypeOK'
    BY <2>6 DEF KycTypeOK, Profiles
  <2>8. ProfilesGrow
    BY <2>4, <2>5 DEF ProfilesGrow
  <2>9. ASSUME NEW i \in DOMAIN profiles PROVE Backed(i)'
    <3>1. Backed(i)
      BY DEF ClearInv
    <3>2. PICK w, t : w = profiles[i].user /\ t = profiles[i].tier
      OBVIOUS
    <3>3. profiles'[i].user = w /\ profiles'[i].tier = t
      BY <2>4, <3>2
    <3>4. ASSUME profiles'[i].status = "approved"
          PROVE  \E k \in DOMAIN log' :
                    /\ Verified(k, w, t)'
                    /\ \A j \in DOMAIN log' : (log'[j].op = "resubmit" /\ log'[j].user = w) => j < k
      <4>1. PICK k \in DOMAIN log :
              /\ Verified(k, w, t)
              /\ \A j \in DOMAIN log : (log[j].op = "resubmit" /\ log[j].user = w) => j < k
        BY <2>4, <3>1, <3>2, <3>4 DEF Backed
      <4>2. \A j \in DOMAIN log' : (log'[j].op = "resubmit" /\ log'[j].user = w) => j < k
        BY <2>2, <2>3, <2>4, <3>2, <3>4, <4>1 DEF Grows
      <4> QED BY <2>2, <4>1, <4>2, VerifiedStays
    <3>5. t = 0 \/ \E k \in DOMAIN log' : Verified(k, w, t)'
      BY <2>2, <3>1, <3>2, VerifiedStays DEF Backed
    <3> QED BY <3>3, <3>4, <3>5 DEF Backed
  <2>10. Detections'
    BY <1>3, <2>2, <2>3 DEF ClearInv, Detections, IsGeoBlocked, Grows
  <2> QED BY <1>3, <1>5, <2>2, <2>5, <2>7, <2>8, <2>9, <2>10, TablesMove
<1>7. CASE profiles' = Append(profiles, NewProfile(u)) /\ UNCHANGED log
  <2>1. PICK row : row = NewProfile(u)
    OBVIOUS
  <2>2. row \in Profiles /\ row.status = "pending" /\ row.tier = 0
    BY <1>2, <2>1 DEF NewProfile, Profiles
  <2>3. /\ profiles' \in Seq(Profiles) /\ DOMAIN profiles' = DOMAIN profiles \cup {Len(profiles) + 1}
        /\ profiles'[Len(profiles) + 1] = row
        /\ \A i \in DOMAIN profiles : profiles'[i] = profiles[i]
    BY <1>4, <1>7, <2>1, <2>2
  <2>4. KycTypeOK'
    BY <2>3 DEF KycTypeOK, Profiles
  <2>5. Grows /\ ProfilesGrow
    BY <1>7, <2>3, LogKept DEF OwnInv, Tables, ProfilesGrow
  <2>6. ASSUME NEW i \in DOMAIN profiles' PROVE Backed(i)'
    <3>1. CASE i \in DOMAIN profiles
      BY <1>7, <2>3, <3>1 DEF ClearInv, Backed, Verified
    <3>2. CASE i = Len(profiles) + 1
      BY <2>2, <2>3, <3>2 DEF Backed
    <3> QED BY <2>3, <3>1, <3>2
  <2>7. Detections'
    BY <1>3, <1>7, DetectionsStay
  <2> QED BY <1>3, <1>5, <2>4, <2>5, <2>6, <2>7, TablesMove
<1> QED BY <1>1, <1>6, <1>7 DEF WriteProfile

\* An approval is on record later than everything before it.
LEMMA VerifyProfileClears ==
    ASSUME OwnInv, ClearInv, NEW i \in DOMAIN profiles, NEW tier \in Tiers, VerifyProfile(i, tier),
           UNCHANGED <<jurisdictions, aftermath>>
    PROVE  ClearInv'
<1>1. PICK u : u = profiles[i].user
  OBVIOUS
<1>2. PICK e : e = [op |-> "verify", user |-> u, tier |-> tier]
  OBVIOUS
<1>3. /\ profiles' = [profiles EXCEPT ![i].status = "approved", ![i].tier = tier]
      /\ log' = Append(log, e)
      /\ UNCHANGED <<pc, req, failures, monitors, transactions, jurisdictions>>
  BY <1>1, <1>2 DEF VerifyProfile
<1>4. e.op = "verify" /\ e.user = u /\ e.tier = tier
  BY <1>2
<1>5. /\ Grows /\ log'[Len(log) + 1] = e /\ DOMAIN log' = DOMAIN log \cup {Len(log) + 1}
      /\ Len(log) \in Nat /\ DOMAIN log = 1 .. Len(log)
  BY <1>3, LogKept DEF OwnInv, Tables
<1>6. PICK k : k = Len(log) + 1
  OBVIOUS
<1>7. k \in DOMAIN log' /\ Verified(k, u, tier)'
  BY <1>4, <1>5, <1>6 DEF Verified
<1>8. profiles \in Seq(Profiles)
  BY DEF ClearInv, Ranges, KycTypeOK, Profiles
<1>9. /\ profiles' \in Seq(Profiles) /\ DOMAIN profiles' = DOMAIN profiles
      /\ profiles'[i].user = u /\ profiles'[i].tier = tier
      /\ \A m \in DOMAIN profiles \ {i} : profiles'[m] = profiles[m]
  <2>1. PICK row : row = [profiles[i] EXCEPT !.status = "approved", !.tier = tier]
    OBVIOUS
  <2>2. profiles[i] \in Profiles
    BY <1>8
  <2>3. row \in Profiles /\ row.user = u /\ row.tier = tier
    BY <1>1, <2>1, <2>2 DEF Profiles
  <2>4. profiles' = [profiles EXCEPT ![i] = row]
    BY <1>3, <1>8, <2>1, <2>2 DEF Profiles
  <2> QED BY <1>8, <2>3, <2>4
<1>10. KycTypeOK'
  BY <1>9 DEF KycTypeOK, Profiles
<1>11. JurisdictionsTypeOK'
  BY <1>3 DEF ClearInv, Ranges, JurisdictionsTypeOK
<1>12. ProfilesGrow
  BY <1>1, <1>7, <1>9 DEF ProfilesGrow, Verified
<1>13. ASSUME NEW m \in DOMAIN profiles PROVE Backed(m)'
  <2>1. CASE m = i
    <3>1. \A j \in DOMAIN log' : (log'[j].op = "resubmit" /\ log'[j].user = u) => j < k
      BY <1>4, <1>5, <1>6
    <3> QED BY <1>7, <1>9, <2>1, <3>1 DEF Backed
  <2>2. CASE m # i
    <3>1. PICK w, t : w = profiles[m].user /\ t = profiles[m].tier
      OBVIOUS
    <3>2. profiles'[m] = profiles[m] /\ Backed(m)
      BY <1>9, <2>2 DEF ClearInv
    <3>3. ASSUME profiles[m].status = "approved"
          PROVE  \E n \in DOMAIN log' :
                    /\ Verified(n, w, t)'
                    /\ \A j \in DOMAIN log' : (log'[j].op = "resubmit" /\ log'[j].user = w) => j < n
      <4>1. PICK n \in DOMAIN log :
              /\ Verified(n, w, t)
              /\ \A j \in DOMAIN log : (log[j].op = "resubmit" /\ log[j].user = w) => j < n
        BY <3>1, <3>2, <3>3 DEF Backed
      <4>2. \A j \in DOMAIN log' : (log'[j].op = "resubmit" /\ log'[j].user = w) => j < n
        BY <1>4, <1>5, <4>1 DEF Grows
      <4> QED BY <1>5, <4>1, <4>2, VerifiedStays
    <3>4. t = 0 \/ \E n \in DOMAIN log' : Verified(n, w, t)'
      BY <1>5, <3>1, <3>2, VerifiedStays DEF Backed
    <3> QED BY <3>1, <3>2, <3>3, <3>4 DEF Backed
  <2> QED BY <2>1, <2>2
<1>14. Detections'
  BY <1>3, <1>4, <1>5 DEF ClearInv, Detections, IsGeoBlocked, Grows
<1> QED BY <1>3, <1>5, <1>9, <1>10, <1>11, <1>12, <1>13, <1>14, TablesMove

\* A detection gives its user a row that blocks; a declaration changes neither.
LEMMA JurisdictionClears ==
    ASSUME OwnInv, ClearInv, UNCHANGED <<profiles, aftermath>>,
           \/ \E c \in Calls : DetectJurisdiction(c)
           \/ \E u \in Users, country \in Countries : DeclareJurisdiction(u, country)
    PROVE  ClearInv'
<1> DEFINE Row == [country : {Detected}, blocked : BOOLEAN, declared : {"none"} \cup Countries]
<1>1. jurisdictions \in [Users -> {NoRow} \cup Row]
  BY DEF ClearInv, Ranges, JurisdictionsTypeOK
<1>2. KycTypeOK' /\ ProfilesGrow
  BY DEF ClearInv, Ranges, KycTypeOK, ProfilesGrow
<1>3. \A row \in Row : row # NoRow
  <2>1. \A row \in Row : "blocked" \in DOMAIN row
    OBVIOUS
  <2> QED BY <2>1 DEF NoRow
<1>4. ASSUME NEW c \in Calls, DetectJurisdiction(c) PROVE ClearInv'
  <2>1. PICK u : u = req[c].user
    OBVIOUS
  <2>2. u \in Users
    <3>1. Passed("detect", req[c])
      BY <1>4 DEF DetectJurisdiction, ClearInv
    <3> QED BY <2>1, <3>1 DEF Passed
  <2>3. PICK old : old = jurisdictions[u]
    OBVIOUS
  <2>4. PICK base : base = IF old = NoRow THEN [declared |-> "none"] ELSE old
    OBVIOUS
  <2>5. PICK detected : detected = [country |-> Detected, blocked |-> Detected \in LicenseRequired]
    OBVIOUS
  <2>6. PICK row : row = With(base, detected)
    OBVIOUS
  <2>7. PICK e : e = [op |-> "detect", user |-> u]
    OBVIOUS
  <2>8. /\ jurisdictions' = [jurisdictions EXCEPT ![u] = row] /\ log' = Append(log, e)
        /\ pc' = [pc EXCEPT ![c] = "idle"] /\ \A d \in Calls \ {c} : req'[d] = req[d]
        /\ UNCHANGED <<failures, monitors, transactions>>
    BY <1>4, <2>1, <2>3, <2>4, <2>5, <2>6, <2>7 DEF DetectJurisdiction, OwnInv
  <2>9. e.op = "detect" /\ e.user = u
    BY <2>7
  <2>10. base.declared \in {"none"} \cup Countries
         /\ DOMAIN base \in {{"declared"}, {"country", "blocked", "declared"}}
    BY <1>1, <2>2, <2>3, <2>4
  <2>11. DOMAIN detected = {"country", "blocked"} /\ detected.country = Detected /\ detected.blocked
    BY <2>5 DEF Detected, LicenseRequired
  <2>12. /\ DOMAIN row = {"country", "blocked", "declared"}
         /\ row.country = Detected /\ row.blocked = detected.blocked /\ row.declared = base.declared
    BY <2>6, <2>10, <2>11 DEF With
  <2>13. detected.blocked = TRUE
    BY <2>5 DEF Detected, LicenseRequired
  <2>14. row \in Row
    <3>1. row = [f \in {"country", "blocked", "declared"} |-> row[f]]
      BY <2>6, <2>12 DEF With
    <3> QED BY <2>10, <2>12, <2>13, <3>1
  <2>15. row.blocked
    BY <2>11, <2>12
  <2>16. JurisdictionsTypeOK'
    BY <1>1, <2>2, <2>8, <2>14 DEF JurisdictionsTypeOK
  <2>17. /\ Grows /\ log'[Len(log) + 1] = e /\ DOMAIN log' = DOMAIN log \cup {Len(log) + 1}
    BY <2>8, LogKept DEF OwnInv, Tables
  <2>18. jurisdictions'[u] = row /\ row # NoRow
         /\ \A w \in Users \ {u} : jurisdictions'[w] = jurisdictions[w]
    BY <1>1, <1>3, <2>2, <2>8, <2>14
  <2>19. ASSUME NEW i \in DOMAIN log', log'[i].op = "detect"
         PROVE  log'[i].user \in Users /\ jurisdictions'[log'[i].user] # NoRow
    <3>1. CASE i \in DOMAIN log
      <4>1. log'[i] = log[i]
        BY <2>17, <3>1 DEF Grows
      <4>2. log[i].user \in Users /\ jurisdictions[log[i].user] # NoRow
        BY <2>19, <3>1, <4>1 DEF ClearInv, Detections
      <4> QED BY <2>18, <4>1, <4>2
    <3>2. CASE i = Len(log) + 1
      BY <2>2, <2>9, <2>17, <2>18, <3>2
    <3> QED BY <2>17, <3>1, <3>2
  <2>20. ASSUME NEW w \in Users PROVE (jurisdictions[w] = NoRow \/ IsGeoBlocked(w))'
    BY <2>15, <2>18 DEF ClearInv, Detections, IsGeoBlocked
  <2>21. Detections'
    BY <2>19, <2>20 DEF Detections
  <2>22. ASSUME NEW i \in DOMAIN profiles' PROVE Backed(i)'
    <3>1. Backed(i)
      BY DEF ClearInv
    <3>2. PICK w, t : w = profiles[i].user /\ t = profiles[i].tier
      OBVIOUS
    <3>3. ASSUME profiles[i].status = "approved"
          PROVE  \E n \in DOMAIN log' :
                    /\ Verified(n, w, t)'
                    /\ \A j \in DOMAIN log' : (log'[j].op = "resubmit" /\ log'[j].user = w) => j < n
      <4>1. PICK n \in DOMAIN log :
              /\ Verified(n, w, t)
              /\ \A j \in DOMAIN log : (log[j].op = "resubmit" /\ log[j].user = w) => j < n
        BY <3>1, <3>2, <3>3 DEF Backed
      <4>2. \A j \in DOMAIN log' : (log'[j].op = "resubmit" /\ log'[j].user = w) => j < n
        BY <2>9, <2>17, <4>1 DEF Grows
      <4> QED BY <2>17, <4>1, <4>2, VerifiedStays
    <3>4. t = 0 \/ \E n \in DOMAIN log' : Verified(n, w, t)'
      BY <2>17, <3>1, <3>2, VerifiedStays DEF Backed
    <3> QED BY <3>2, <3>3, <3>4 DEF Backed
  <2> QED BY <1>2, <2>8, <2>16, <2>17, <2>21, <2>22, TablesMove
<1>5. ASSUME NEW u \in Users, NEW country \in Countries, DeclareJurisdiction(u, country)
      PROVE  ClearInv'
  <2>1. PICK row : row = [jurisdictions[u] EXCEPT !.declared = country]
    OBVIOUS
  <2>2. /\ jurisdictions[u] # NoRow /\ jurisdictions' = [jurisdictions EXCEPT ![u] = row]
        /\ UNCHANGED <<log, pc, req, failures, monitors, transactions>>
    BY <1>5, <2>1 DEF DeclareJurisdiction
  <2>3. jurisdictions[u] \in Row
    BY <1>1, <2>2
  <2>4. row \in Row /\ row.blocked = jurisdictions[u].blocked
    BY <2>1, <2>3
  <2>5. JurisdictionsTypeOK'
    BY <1>1, <2>2, <2>4 DEF JurisdictionsTypeOK
  <2>6. jurisdictions'[u] = row /\ row # NoRow
        /\ \A w \in Users \ {u} : jurisdictions'[w] = jurisdictions[w]
    BY <1>1, <1>3, <2>2, <2>4
  <2>7. Detections'
    BY <2>2, <2>4, <2>6 DEF ClearInv, Detections, IsGeoBlocked
  <2>8. Grows
    BY <2>2, LogKept DEF OwnInv, Tables
  <2> QED BY <1>2, <2>2, <2>5, <2>7, <2>8, BackedStays, TablesMove
<1> QED BY <1>4, <1>5

-----------------------------------------------------------------------------
\* A submission or a detection begins.
LEMMA BeginningsClear ==
    ASSUME OwnInv, ClearInv,
           \/ (\E c \in Calls, u \in Users : BeginSubmit(c, u)) /\ UNCHANGED <<jurisdictions, aftermath>>
           \/ (\E c \in Calls, u \in Users : BeginDetect(c, u)) /\ UNCHANGED <<profiles, aftermath>>
    PROVE  ClearInv'
<1>1. UNCHANGED <<log, profiles, jurisdictions, failures, monitors, transactions>>
  BY DEF BeginSubmit, BeginDetect
<1>2. \E c \in Calls, l \in {"profile", "detect"} : \E r :
        pc' = [pc EXCEPT ![c] = l] /\ req' = [req EXCEPT ![c] = r] /\ r.user \in Users
  <2>1. ASSUME NEW c \in Calls, NEW u \in Users, BeginSubmit(c, u)
        PROVE  \E l \in {"profile", "detect"} : \E r :
                 pc' = [pc EXCEPT ![c] = l] /\ req' = [req EXCEPT ![c] = r] /\ r.user \in Users
    <3>1. PICK r : r = [op |-> "submit", user |-> u, known |-> ProfilesOf(u) # {}]
      OBVIOUS
    <3>2. pc' = [pc EXCEPT ![c] = "profile"] /\ req' = [req EXCEPT ![c] = r] /\ r.user \in Users
      BY <2>1, <3>1 DEF BeginSubmit
    <3> QED BY <3>2
  <2>2. ASSUME NEW c \in Calls, NEW u \in Users, BeginDetect(c, u)
        PROVE  \E l \in {"profile", "detect"} : \E r :
                 pc' = [pc EXCEPT ![c] = l] /\ req' = [req EXCEPT ![c] = r] /\ r.user \in Users
    <3>1. PICK r : r = [op |-> "detect", user |-> u]
      OBVIOUS
    <3>2. pc' = [pc EXCEPT ![c] = "detect"] /\ req' = [req EXCEPT ![c] = r] /\ r.user \in Users
      BY <2>2, <3>1 DEF BeginDetect
    <3> QED BY <3>2
  <2> QED BY <2>1, <2>2
<1>3. Grows /\ ProfilesGrow
  BY <1>1, LogKept DEF OwnInv, Tables, ProfilesGrow
<1>4. KycTypeOK' /\ JurisdictionsTypeOK'
  BY <1>1 DEF ClearInv, Ranges, KycTypeOK, JurisdictionsTypeOK
<1> QED BY <1>1, <1>2, <1>3, <1>4, BackedStays, DetectionsStay, TablesMove

\* Monitoring and a restart: they write what payments do not rest on.
LEMMA BesideClears ==
    ASSUME OwnInv, ClearInv,
           \/ \E n \in DOMAIN transactions : Monitor(n) \/ LoseMonitor(n)
           \/ Restart
           \/ UNCHANGED vars
    PROVE  ClearInv'
<1>1. PICK S : monitors \in Seq(S)
  BY DEF ClearInv, Ranges
<1>2. DOMAIN transactions = DOMAIN monitors
  BY <1>1 DEF ClearInv, Ranges, OwnInv, Tables
<1>3. /\ UNCHANGED <<log, profiles, jurisdictions, transactions>>
      /\ failures' = failures \/ Failing
  BY DEF Monitor, LoseMonitor, CheckVelocity, CheckStructuring, CheckTheRest, StoreAlert, Restart,
         MonitoringOnly, vars
<1>4. UNCHANGED <<pc, req>> \/ (pc' = [c \in Calls |-> "idle"])
  BY DEF Monitor, LoseMonitor, CheckVelocity, CheckStructuring, CheckTheRest, StoreAlert, Restart,
         MonitoringOnly, vars
<1>5. (\E T : monitors' \in Seq(T)) /\ Len(monitors') = Len(transactions)
  <2>1. ASSUME NEW n \in DOMAIN transactions, Monitor(n) \/ LoseMonitor(n)
        PROVE  \E x : monitors' = [monitors EXCEPT ![n] = x]
    BY <2>1 DEF Monitor, LoseMonitor, CheckVelocity, CheckStructuring, CheckTheRest, StoreAlert, Found
  <2>2. ASSUME NEW n \in DOMAIN transactions, NEW x, monitors' = [monitors EXCEPT ![n] = x]
        PROVE  (\E T : monitors' \in Seq(T)) /\ Len(monitors') = Len(monitors)
    BY <1>1, <1>2, <2>2, Replaced
  <2>3. CASE Restart
    <3>1. monitors' = [n \in 1 .. Len(monitors) |-> Over] /\ Len(monitors) \in Nat
      BY <1>1, <2>3 DEF Restart
    <3>2. monitors' \in Seq({Over}) /\ Len(monitors') = Len(monitors)
      BY <3>1
    <3> QED BY <3>2 DEF ClearInv, Ranges
  <2>4. CASE UNCHANGED vars
    BY <1>1, <2>4 DEF vars, ClearInv, Ranges
  <2> QED BY <2>1, <2>2, <2>3, <2>4 DEF ClearInv, Ranges
<1>6. Ranges'
  <2>1. failures' \in 0 .. MaxFailures
    BY <1>3, CallsAssumption DEF ClearInv, Ranges, Failing
  <2>2. pc' \in [Calls -> {"idle", "profile", "detect", "kyc", "limits", "daily", "commit", "travel",
                           "clearing", "clearing_id", "l1", "hash"}]
    BY <1>4 DEF ClearInv, Ranges
  <2>3. KycTypeOK' /\ JurisdictionsTypeOK'
    BY <1>3 DEF ClearInv, Ranges, KycTypeOK, JurisdictionsTypeOK
  <2> QED BY <1>3, <1>5, <2>1, <2>2, <2>3 DEF Ranges
<1>7. \A c \in Calls : \/ pc'[c] = pc[c] /\ req'[c] = req[c]
                       \/ Passed(pc[c], req[c])'
  <2>1. CASE UNCHANGED <<pc, req>>
    BY <2>1
  <2>2. CASE pc' = [c \in Calls |-> "idle"]
    BY <2>2, NothingToPass
  <2> QED BY <1>4, <2>1, <2>2
<1>8. Grows /\ ProfilesGrow
  BY <1>3, LogKept DEF OwnInv, Tables, ProfilesGrow
<1>9. IsFiniteSet(DOMAIN profiles')
  BY <1>3, ProfilesFinite DEF ClearInv, Ranges
<1> QED BY <1>3, <1>6, <1>7, <1>8, <1>9, BackedStays, DetectionsStay, Assemble

-----------------------------------------------------------------------------
\* The invariant holds at first, and every step keeps it.
LEMMA ClearAlways == Spec => []ClearInv
<1>1. Init => ClearInv
  <2> SUFFICES ASSUME Init PROVE ClearInv
    OBVIOUS
  <2>1. /\ log = <<>> /\ transactions = <<>> /\ profiles = <<>> /\ monitors = <<>> /\ failures = 0
        /\ jurisdictions = [u \in Users |-> NoRow] /\ pc = [c \in Calls |-> "idle"]
    BY DEF Init, CallsInit, KycInit, JurisdictionsInit
  <2>2. KycTypeOK /\ JurisdictionsTypeOK
    BY <2>1 DEF KycTypeOK, JurisdictionsTypeOK
  <2>3. monitors \in Seq({}) /\ Len(monitors) = Len(transactions)
    BY <2>1
  <2>4. failures \in 0 .. MaxFailures
    BY <2>1, CallsAssumption
  <2>5. Ranges
    BY <2>1, <2>2, <2>3, <2>4 DEF Ranges
  <2>6. \A c \in Calls : Passed(pc[c], req[c])
    BY <2>1 DEF Passed, Before
  <2>7. Detections
    BY <2>1 DEF Detections
  <2> QED BY <2>1, <2>5, <2>6, <2>7 DEF ClearInv
<1>2. OwnInv /\ OwnInv' /\ ClearInv /\ [Next]_vars => ClearInv'
  <2> SUFFICES ASSUME OwnInv, OwnInv', ClearInv, [Next]_vars PROVE ClearInv'
    OBVIOUS
  <2>1. CASE KycNext /\ UNCHANGED <<jurisdictions, aftermath>>
    BY <2>1, BeginningsClear, WriteProfileClears, VerifyProfileClears DEF KycNext
  <2>2. CASE JurisdictionsNext /\ UNCHANGED <<profiles, aftermath>>
    BY <2>2, BeginningsClear, JurisdictionClears DEF JurisdictionsNext
  <2>3. CASE \E c \in Calls, u \in Users, a \in Amounts : BeginPayment(c, u, a)
    BY <2>3, BeginPaymentClears
  <2>4. ASSUME NEW c \in Calls, Step(c) \/ FailBefore(c) PROVE ClearInv'
    <3>1. CASE \E i \in DOMAIN profiles : CheckKyc(c, i) \/ ReadLimits(c, i)
      BY <3>1, CheckKycClears, ReadLimitsClears
    <3>2. CASE RefuseUnknown(c) \/ CheckDaily(c) \/ FailBefore(c)
      BY <3>2, CheckDailyClears
    <3>3. CASE CommitPayment(c)
      BY <3>3, CommitClears
    <3>4. CASE \/ TravelRule(c) \/ RecordClearing(c) \/ RecordHash(c)
               \/ \E arrives, answered \in BOOLEAN : SubmitClearing(c, arrives, answered)
                                                     \/ SendL1(c, arrives, answered)
      BY <3>4, AftermathClears
    <3> QED BY <2>4, <3>1, <3>2, <3>3, <3>4 DEF Step
  <2>5. CASE \/ \E n \in DOMAIN transactions : Monitor(n) \/ LoseMonitor(n)
             \/ Restart
             \/ UNCHANGED vars
    BY <2>5, BesideClears
  <2> QED BY <2>1, <2>2, <2>3, <2>4, <2>5 DEF Next
<1> QED BY <1>1, <1>2, OwnAlways, PTL DEF Spec

\* Geo-blocking, KYC and limits are read one after the other before BEGIN while submissions,
\* approvals and detections go on: every payment still rests on an approval that covers its
\* amount and that no earlier submission had withdrawn, and its user was not detected then.
THEOREM PaymentsAreCleared == Spec => []PaidOnlyWhenCleared
<1>1. OwnInv /\ ClearInv => PaidOnlyWhenCleared
  <2> SUFFICES ASSUME OwnInv, ClearInv PROVE PaidOnlyWhenCleared
    OBVIOUS
  <2>1. TypeOK
    <3>1. transactions \in Seq(Rows) /\ DOMAIN outside = DOMAIN transactions
      BY DEF OwnInv, Tables
    <3>2. DOMAIN monitors = DOMAIN transactions
      BY <3>1 DEF ClearInv, Ranges
    <3> QED BY <3>1, <3>2 DEF TypeOK, ClearInv, Ranges, Rows
  <2>2. ASSUME NEW n \in DOMAIN transactions
        PROVE  LET before(op) == {i \in 1 .. transactions[n].since :
                                    log[i].op = op /\ log[i].user = transactions[n].user} IN
               /\ before("detect") = {}
               /\ \E i \in DOMAIN log : Approves(n, i) /\ \A j \in before("resubmit") : j < i
    <3>1. Undetected(transactions[n]) /\ Approved(transactions[n])
      BY DEF ClearInv, Paid
    <3>2. {i \in 1 .. transactions[n].since :
             log[i].op = "detect" /\ log[i].user = transactions[n].user} = {}
      BY <3>1 DEF Undetected
    <3>3. \E i \in DOMAIN log :
             /\ Approves(n, i)
             /\ \A j \in 1 .. transactions[n].since :
                  (log[j].op = "resubmit" /\ log[j].user = transactions[n].user) => j < i
      BY <3>1 DEF Approved, Approves
    <3> QED BY <3>2, <3>3
  <2> QED BY <2>1, <2>2 DEF PaidOnlyWhenCleared
<1> QED BY <1>1, OwnAlways, ClearAlways, PTL

\* The status of a profile and its limits are read by two SELECTs, perhaps of two rows: a payment
\* goes without a daily limit only if there are two, or if an approval gave an unknown tier.
THEOREM UnlimitedNeedsRace == Spec => []UnlimitedOnlyByRace
<1>1. ClearInv => UnlimitedOnlyByRace
  BY DEF ClearInv, Paid, Exempt, UnlimitedOnlyByRace
<1> QED BY <1>1, ClearAlways, PTL

-----------------------------------------------------------------------------
(***************************************************************************)
(* What monitoring notices of split payments.                              *)
(***************************************************************************)
Kinds == {"velocity_check", "limit_exceeded", "structuring", "unusual_pattern",
          "sanctions_match", "large_transaction"}

\* One monitorTransaction: where it is, and what it has found.
Watcher == [at : {"velocity", "structuring", "rest", "store", "done"}, found : Seq(Kinds)]

\* The payments of the n-th row's user just below the threshold, up to that row.
Early(rows, n) == {k \in 1 .. n : rows[k].user = rows[n].user /\ JustBelow(rows[k].amount)}

\* The monitoring of the n-th row has to notice: enough of them were there when it began.
Due(rows, n) == JustBelow(rows[n].amount) /\ Cardinality(Early(rows, n)) >= StructuringCount

Noted(found) == \E i \in DOMAIN found : found[i] = "structuring"

Stored(rows, n) == [transaction |-> n, kind |-> "structuring"] \in rows

\* A monitoring that has yet to look, or has it among what it found, or has stored the alert, or
\* has failed for want of the column.
Noticed(m, stored) ==
    \/ m.at \in {"velocity", "structuring"}
    \/ m.at \in {"rest", "store"} /\ Noted(m.found)
    \/ stored
    \/ ~RiskColumn /\ m.at = "done"

\* A monitoring that comes to the SELECT that needs the column has found the splits it has to.
SplitsFound ==
    \A n \in DOMAIN transactions :
        Due(transactions, n) /\ monitors[n].at = "rest" => Noted(monitors[n].found)

\* Unless some of it was lost, no monitoring is past a due alert.  It counts whatever is there
\* when it looks, so only the last of several splits has to notice.  Without the column none
\* comes to store its alerts.
WatchInv ==
    /\ monitors \in Seq(Watcher) /\ Len(monitors) = Len(transactions)
    /\ unmonitored \/ \A n \in DOMAIN transactions :
           Due(transactions, n) => Noticed(monitors[n], Stored(alerts, n))
    /\ SplitsFound
    /\ ~RiskColumn => alerts = {} /\ \A n \in DOMAIN transactions : monitors[n].at # "store"

\* Some of the numbers up to a bound is the largest.
LEMMA LargestElement ==
    ASSUME NEW b \in Nat, NEW S \in SUBSET (1 .. b), S # {}
    PROVE  \E n \in S : \A m \in S : m <= n
<1> DEFINE R == {b - m : m \in S}
<1>1. R \in SUBSET Nat /\ R # {}
  <2>1. \A m \in S : m \in 1 .. b
    OBVIOUS
  <2>2. \A m \in S : b - m \in Nat
    BY <2>1
  <2> QED BY <2>2
<1>2. PICK r \in R : \A q \in R : ~(<<q, r>> \in OpToRel(<, Nat))
  BY <1>1, WFMin, NatLessThanWellFounded
<1>3. \A q \in R : ~(q < r)
  BY <1>1, <1>2 DEF OpToRel
<1>4. PICK n \in S : r = b - n
  BY <1>2
<1>5. ASSUME NEW m \in S PROVE m <= n
  <2>1. ~(b - m < b - n)
    BY <1>3, <1>4
  <2> QED BY <2>1
<1> QED BY <1>5

\* What is due depends on the users and amounts of the rows up to it, which stay.
LEMMA DueStays ==
    ASSUME NEW rows, NEW later, NEW n \in Nat \ {0},
           \A k \in 1 .. n : later[k].user = rows[k].user /\ later[k].amount = rows[k].amount
    PROVE  Due(later, n) <=> Due(rows, n)
<1>1. Early(later, n) = Early(rows, n)
  BY DEF Early
<1>2. later[n].amount = rows[n].amount
  OBVIOUS
<1> QED BY <1>1, <1>2 DEF Due

\* Steps that write other columns, or nothing of all this.
LEMMA WatchStands ==
    ASSUME OwnInv, WatchInv, UNCHANGED <<monitors, alerts, unmonitored>>,
           Len(transactions') = Len(transactions), DOMAIN transactions' = DOMAIN transactions,
           \A k \in DOMAIN transactions : /\ transactions'[k].user = transactions[k].user
                                          /\ transactions'[k].amount = transactions[k].amount
    PROVE  WatchInv'
<1>1. DOMAIN transactions = 1 .. Len(transactions) /\ Len(transactions) \in Nat
  BY DEF OwnInv, Tables
<1>2. ASSUME NEW n \in DOMAIN transactions PROVE Due(transactions', n) <=> Due(transactions, n)
  <2>1. n \in Nat \ {0} /\ 1 .. n \subseteq DOMAIN transactions
    BY <1>1
  <2>2. PICK later, rows : later = transactions' /\ rows = transactions
    OBVIOUS
  <2>3. \A k \in 1 .. n : later[k].user = rows[k].user /\ later[k].amount = rows[k].amount
    BY <2>1, <2>2
  <2>4. Due(later, n) <=> Due(rows, n)
    BY <2>1, <2>3, DueStays
  <2> QED BY <2>2, <2>4
<1> QED BY <1>2 DEF WatchInv, SplitsFound

\* A step of the n-th monitoring, which may store an alert.
LEMMA WatchMoves ==
    ASSUME OwnInv, WatchInv, NEW n \in DOMAIN transactions, NEW m \in Watcher,
           monitors' = [monitors EXCEPT ![n] = m], UNCHANGED transactions,
           alerts \subseteq alerts', (unmonitored' = unmonitored) \/ unmonitored',
           (~unmonitored' /\ Due(transactions, n)) => Noticed(m, Stored(alerts', n)),
           Due(transactions, n) /\ m.at = "rest" => Noted(m.found),
           ~RiskColumn => m.at # "store" /\ alerts' = alerts
    PROVE  WatchInv'
<1>1. /\ DOMAIN transactions = DOMAIN monitors
      /\ monitors' \in Seq(Watcher) /\ Len(monitors') = Len(transactions')
  BY DEF WatchInv, OwnInv, Tables
<1>2. monitors'[n] = m /\ \A k \in DOMAIN transactions \ {n} : monitors'[k] = monitors[k]
  BY <1>1
<1>3. ASSUME NEW k \in DOMAIN transactions, ~unmonitored', Due(transactions, k)
      PROVE  Noticed(monitors'[k], Stored(alerts', k))
  <2>1. CASE k = n
    BY <1>2, <1>3, <2>1
  <2>2. CASE k # n
    <3>1. Noticed(monitors[k], Stored(alerts, k))
      BY <1>3 DEF WatchInv
    <3>2. Stored(alerts, k) => Stored(alerts', k)
      BY DEF Stored
    <3> QED BY <1>2, <2>2, <3>1, <3>2 DEF Noticed
  <2> QED BY <2>1, <2>2
<1>4. SplitsFound'
  BY <1>1, <1>2 DEF WatchInv, SplitsFound
<1>5. ~RiskColumn => alerts' = {} /\ \A k \in DOMAIN transactions : monitors'[k].at # "store"
  BY <1>2 DEF WatchInv
<1> QED BY <1>1, <1>3, <1>4, <1>5 DEF WatchInv

-----------------------------------------------------------------------------
\* Elements of the list of monitorings, and of what one has found.
LEMMA WatcherFacts ==
    ASSUME WatchInv, NEW n \in DOMAIN transactions
    PROVE  /\ monitors[n] \in Watcher /\ monitors[n].found \in Seq(Kinds)
           /\ monitors[n] = [at |-> monitors[n].at, found |-> monitors[n].found]
<1>1. \A S : \A s \in Seq(S) : \A k \in 1 .. Len(s) : s[k] \in S
  OBVIOUS
<1>2. n \in 1 .. Len(monitors)
  BY DEF WatchInv
<1>3. monitors[n] \in Watcher
  BY <1>1, <1>2 DEF WatchInv
<1> QED BY <1>3 DEF Watcher

\* What was found stays found when more is found, and the last of it is found too.
LEMMA NotedGrows ==
    ASSUME NEW f \in Seq(Kinds), NEW g \in Seq(Kinds)
    PROVE  f \o g \in Seq(Kinds) /\ (Noted(f) => Noted(f \o g))
<1>1. f \o g \in Seq(Kinds) /\ \A i \in DOMAIN f : i \in DOMAIN (f \o g) /\ (f \o g)[i] = f[i]
  OBVIOUS
<1> QED BY <1>1 DEF Noted

\* Append, which the checks find one kind with.
LEMMA NotedByAppend ==
    ASSUME NEW f \in Seq(Kinds), NEW k \in Kinds
    PROVE  Append(f, k) \in Seq(Kinds) /\ (k = "structuring" => Noted(Append(f, k)))
<1>1. /\ Append(f, k) \in Seq(Kinds) /\ Len(f) + 1 \in DOMAIN Append(f, k)
      /\ Append(f, k)[Len(f) + 1] = k
  OBVIOUS
<1> QED BY <1>1 DEF Noted

\* Storing the first of what was found keeps the rest.
LEMMA NotedTail ==
    ASSUME NEW f \in Seq(Kinds), f # <<>>
    PROVE  Tail(f) \in Seq(Kinds) /\ (Noted(f) => Head(f) = "structuring" \/ Noted(Tail(f)))
<1>1. /\ Tail(f) \in Seq(Kinds) /\ Head(f) = f[1]
      /\ \A i \in DOMAIN f \ {1} : i - 1 \in DOMAIN Tail(f) /\ Tail(f)[i - 1] = f[i]
  OBVIOUS
<1> QED BY <1>1 DEF Noted

\* What is due was there when the row was written, and is there when monitoring counts.
LEMMA DueIsCounted ==
    ASSUME OwnInv, NEW n \in DOMAIN transactions, Due(transactions, n)
    PROVE  JustBelow(transactions[n].amount) /\ Cardinality(Splits(n)) >= StructuringCount
<1>1. DOMAIN transactions = 1 .. Len(transactions) /\ Len(transactions) \in Nat
  BY DEF OwnInv, Tables
<1>2. IsFiniteSet(1 .. Len(transactions))
  BY <1>1, FS_Interval
<1>3. Splits(n) \subseteq 1 .. Len(transactions)
  BY <1>1 DEF Splits, OfUser
<1>4. IsFiniteSet(Splits(n))
  BY <1>2, <1>3, FS_Subset
<1>5. Early(transactions, n) \in SUBSET Splits(n)
  BY <1>1 DEF Early, Splits, OfUser
<1>6. /\ IsFiniteSet(Early(transactions, n))
      /\ Cardinality(Early(transactions, n)) <= Cardinality(Splits(n))
  BY <1>4, <1>5, FS_Subset
<1>7. Cardinality(Early(transactions, n)) \in Nat /\ Cardinality(Splits(n)) \in Nat
  BY <1>4, <1>6, FS_CardinalityType
<1>8. StructuringCount \in Nat
  BY PaymentAssumption
<1> QED BY <1>6, <1>7, <1>8 DEF Due

\* The checks of a monitoring, in the order of the code; without the column the last of them
\* fails.
LEMMA MonitorWatches ==
    ASSUME OwnInv, WatchInv, NEW n \in DOMAIN transactions, Monitor(n)
    PROVE  WatchInv'
<1> DEFINE found == monitors[n].found
<1>1. monitors[n] \in Watcher /\ found \in Seq(Kinds)
  BY WatcherFacts
<1>2. (~unmonitored /\ Due(transactions, n)) => Noticed(monitors[n], Stored(alerts, n))
  BY DEF WatchInv
<1>3. ASSUME NEW k \in {"velocity_check", "limit_exceeded"}, NEW holds,
             Found(n, k, holds, "structuring"), MonitoringOnly, Watching(n, "velocity")
      PROVE  WatchInv'
  <2>1. PICK m : m = [at |-> "structuring", found |-> IF holds THEN Append(found, k) ELSE found]
    OBVIOUS
  <2>2. Append(found, k) \in Seq(Kinds)
    <3>1. k \in Kinds
      BY DEF Kinds
    <3> QED BY <1>1, <3>1, NotedByAppend
  <2>3. m \in Watcher
    BY <1>1, <2>1, <2>2 DEF Watcher
  <2>4. monitors' = [monitors EXCEPT ![n] = m]
    BY <1>3, <2>1 DEF Found
  <2>5. UNCHANGED <<transactions, alerts, unmonitored>>
    BY <1>3 DEF MonitoringOnly
  <2>6. Noticed(m, Stored(alerts', n)) /\ m.at = "structuring"
    BY <2>1 DEF Noticed
  <2> QED BY <2>3, <2>4, <2>5, <2>6, WatchMoves
<1>4. CASE CheckVelocity(n)
  BY <1>3, <1>4 DEF CheckVelocity
<1>5. CASE CheckStructuring(n)
  <2>1. PICK holds : holds = (JustBelow(transactions[n].amount)
                              /\ Cardinality(Splits(n)) >= StructuringCount)
    OBVIOUS
  <2>2. PICK m : m = [at |-> "rest",
                      found |-> IF holds THEN Append(found, "structuring") ELSE found]
    OBVIOUS
  <2>3. Append(found, "structuring") \in Seq(Kinds) /\ Noted(Append(found, "structuring"))
    <3>1. "structuring" \in Kinds
      BY DEF Kinds
    <3> QED BY <1>1, <3>1, NotedByAppend
  <2>4. m \in Watcher
    BY <1>1, <2>2, <2>3 DEF Watcher
  <2>5. monitors' = [monitors EXCEPT ![n] = m]
    BY <1>5, <2>1, <2>2 DEF CheckStructuring, Found
  <2>6. UNCHANGED <<transactions, alerts, unmonitored>>
    BY <1>5 DEF CheckStructuring, MonitoringOnly
  <2>7. ASSUME Due(transactions, n) PROVE Noticed(m, Stored(alerts', n)) /\ Noted(m.found)
    <3>1. holds
      BY <2>1, <2>7, DueIsCounted
    <3>2. m.at = "rest" /\ Noted(m.found)
      BY <2>2, <2>3, <3>1
    <3> QED BY <3>2 DEF Noticed
  <2>8. m.at = "rest"
    BY <2>2
  <2> QED BY <2>4, <2>5, <2>6, <2>7, <2>8, WatchMoves
<1>6. ASSUME NEW unusual \in BOOLEAN, CheckTheRest(n, unusual) PROVE WatchInv'
  <2>1. PICK more : more = (IF unusual THEN <<"unusual_pattern">> ELSE <<>>)
    OBVIOUS
  <2>2. PICK listed : listed = (IF SanctionsMatch THEN <<"sanctions_match">> ELSE <<>>)
    OBVIOUS
  <2>3. PICK large : large = (IF Large(n) THEN <<"large_transaction">> ELSE <<>>)
    OBVIOUS
  <2>4. more \in Seq(Kinds) /\ listed \in Seq(Kinds) /\ large \in Seq(Kinds)
    <3>1. \A k \in Kinds : <<k>> \in Seq(Kinds)
      OBVIOUS
    <3>2. {"unusual_pattern", "sanctions_match", "large_transaction"} \subseteq Kinds
      BY DEF Kinds
    <3>3. <<>> \in Seq(Kinds)
      OBVIOUS
    <3> QED BY <2>1, <2>2, <2>3, <3>1, <3>2, <3>3
  <2>5. PICK all : all = ((found \o more) \o listed) \o large
    OBVIOUS
  <2>6. found \o more \in Seq(Kinds) /\ (Noted(found) => Noted(found \o more))
    BY <1>1, <2>4, NotedGrows
  <2>7. /\ (found \o more) \o listed \in Seq(Kinds)
        /\ Noted(found \o more) => Noted((found \o more) \o listed)
    BY <2>4, <2>6, NotedGrows
  <2>8. all \in Seq(Kinds) /\ (Noted((found \o more) \o listed) => Noted(all))
    BY <2>4, <2>5, <2>7, NotedGrows
  <2>9. UNCHANGED <<transactions, alerts, unmonitored>> /\ monitors[n].at = "rest"
    BY <1>6 DEF CheckTheRest, MonitoringOnly, Watching
  <2>10. CASE RiskColumn
    <3>1. PICK m : m = [at |-> "store", found |-> all]
      OBVIOUS
    <3>2. m \in Watcher /\ m.at = "store" /\ m.found = all
      BY <2>8, <3>1 DEF Watcher
    <3>3. monitors' = [monitors EXCEPT ![n] = m]
      BY <1>6, <2>1, <2>2, <2>3, <2>5, <2>10, <3>1 DEF CheckTheRest
    <3>4. (~unmonitored' /\ Due(transactions, n)) => Noticed(m, Stored(alerts', n))
      BY <1>2, <2>6, <2>7, <2>8, <2>9, <2>10, <3>2 DEF Noticed
    <3> QED BY <2>9, <2>10, <3>2, <3>3, <3>4, WatchMoves
  <2>11. CASE ~RiskColumn
    <3>1. monitors' = [monitors EXCEPT ![n] = Over]
      BY <1>6, <2>11 DEF CheckTheRest
    <3>2. Over \in Watcher /\ Over.at = "done"
      <4>1. <<>> \in Seq(Kinds)
        OBVIOUS
      <4> QED BY <4>1 DEF Over, Watcher
    <3>3. Noticed(Over, Stored(alerts', n))
      BY <2>11, <3>2 DEF Noticed
    <3> QED BY <2>9, <3>1, <3>2, <3>3, WatchMoves
  <2> QED BY <2>10, <2>11
<1>7. CASE StoreAlert(n)
  <2>1. monitors[n].at = "store" /\ UNCHANGED <<transactions, unmonitored>> /\ RiskColumn
    BY <1>7 DEF StoreAlert, Watching, WatchInv
  <2>2. CASE found = <<>>
    <3>1. PICK m : m = [monitors[n] EXCEPT !.at = "done"]
      OBVIOUS
    <3>2. m \in Watcher /\ m.at = "done"
      BY <1>1, <3>1 DEF Watcher
    <3>3. monitors' = [monitors EXCEPT ![n] = m] /\ alerts' = alerts
      BY <1>7, <2>2, <3>1 DEF StoreAlert
    <3>4. ~Noted(found)
      BY <2>2 DEF Noted
    <3>5. (~unmonitored' /\ Due(transactions, n)) => Noticed(m, Stored(alerts', n))
      BY <1>2, <2>1, <3>3, <3>4 DEF Noticed
    <3> QED BY <2>1, <3>2, <3>3, <3>5, WatchMoves
  <2>3. CASE found # <<>>
    <3>1. PICK m : m = [monitors[n] EXCEPT !.found = Tail(found)]
      OBVIOUS
    <3>2. Tail(found) \in Seq(Kinds) /\ (Noted(found) => Head(found) = "structuring" \/ Noted(Tail(found)))
      BY <1>1, <2>3, NotedTail
    <3>3. m \in Watcher /\ m.at = "store" /\ m.found = Tail(found)
      BY <1>1, <2>1, <3>1, <3>2 DEF Watcher
    <3>4. /\ monitors' = [monitors EXCEPT ![n] = m]
          /\ alerts' = alerts \cup {[transaction |-> n, kind |-> Head(found)]}
      BY <1>7, <2>3, <3>1 DEF StoreAlert
    <3>5. Head(found) = "structuring" => Stored(alerts', n)
      BY <3>4 DEF Stored
    <3>6. Stored(alerts, n) => Stored(alerts', n)
      BY <3>4 DEF Stored
    <3>7. (~unmonitored' /\ Due(transactions, n)) => Noticed(m, Stored(alerts', n))
      BY <1>2, <2>1, <3>2, <3>3, <3>5, <3>6 DEF Noticed
    <3>8. alerts \subseteq alerts'
      BY <3>4
    <3> QED BY <2>1, <3>3, <3>4, <3>7, <3>8, WatchMoves
  <2> QED BY <2>2, <2>3
<1> QED BY <1>4, <1>5, <1>6, <1>7 DEF Monitor

\* What is lost is known to be lost; a restart loses what was not through.
LEMMA LossWatches ==
    ASSUME OwnInv, WatchInv,
           Restart \/ \E n \in DOMAIN transactions : LoseMonitor(n)
    PROVE  WatchInv'
<1>1. Over \in Watcher /\ Over.at = "done"
  <2>1. <<>> \in Seq(Kinds)
    OBVIOUS
  <2> QED BY <2>1 DEF Over, Watcher
<1>2. ASSUME NEW n \in DOMAIN transactions, LoseMonitor(n) PROVE WatchInv'
  <2>1. /\ monitors' = [monitors EXCEPT ![n] = Over] /\ unmonitored' = TRUE
        /\ UNCHANGED <<transactions, alerts>>
    BY <1>2 DEF LoseMonitor
  <2> QED BY <1>1, <2>1, WatchMoves
<1>3. CASE Restart
  <2>1. /\ monitors' = [n \in DOMAIN monitors |-> Over] /\ UNCHANGED <<transactions, alerts>>
        /\ unmonitored' = (unmonitored \/ \E n \in DOMAIN monitors : monitors[n].at # "done")
    BY <1>3 DEF Restart
  <2>2. /\ DOMAIN monitors = 1 .. Len(monitors) /\ DOMAIN transactions = DOMAIN monitors
        /\ Len(monitors) \in Nat
    BY DEF WatchInv, OwnInv, Tables
  <2>3. monitors' \in Seq(Watcher) /\ Len(monitors') = Len(transactions')
    BY <1>1, <2>1, <2>2 DEF WatchInv
  <2>4. ASSUME ~unmonitored', NEW n \in DOMAIN transactions, Due(transactions, n)
        PROVE  Noticed(monitors'[n], Stored(alerts', n))
    <3>1. ~unmonitored /\ monitors[n].at = "done"
      BY <2>1, <2>2, <2>4
    <3>2. Noticed(monitors[n], Stored(alerts, n))
      BY <2>4, <3>1 DEF WatchInv
    <3>3. Stored(alerts, n) \/ ~RiskColumn
      BY <3>1, <3>2 DEF Noticed
    <3>4. monitors'[n].at = "done"
      BY <1>1, <2>1, <2>2
    <3> QED BY <2>1, <3>3, <3>4 DEF Noticed
  <2>5. \A n \in DOMAIN transactions' : monitors'[n].at = "done"
    BY <1>1, <2>1, <2>2
  <2>6. SplitsFound'
    BY <2>5 DEF SplitsFound
  <2> QED BY <2>1, <2>3, <2>4, <2>5, <2>6 DEF WatchInv
<1> QED BY <1>2, <1>3

\* A payment's COMMIT adds its row, and begins its monitoring.
LEMMA CommitWatches ==
    ASSUME OwnInv, WatchInv, NEW c \in Calls, CommitPayment(c)
    PROVE  WatchInv'
<1>1. PICK row, m : /\ transactions' = Append(transactions, row)
                    /\ monitors' = Append(monitors, m)
                    /\ m = [at |-> "velocity", found |-> <<>>]
                    /\ UNCHANGED <<alerts, unmonitored>>
  BY DEF CommitPayment
<1>2. m \in Watcher /\ m.at = "velocity"
  <2>1. <<>> \in Seq(Kinds)
    OBVIOUS
  <2> QED BY <1>1, <2>1 DEF Watcher
<1>3. /\ DOMAIN transactions = 1 .. Len(transactions) /\ Len(transactions) \in Nat
      /\ DOMAIN transactions' = 1 .. Len(transactions) + 1
      /\ Len(transactions') = Len(transactions) + 1
      /\ \A k \in DOMAIN transactions : transactions'[k] = transactions[k]
  BY <1>1 DEF OwnInv, Tables
<1>4. /\ monitors' \in Seq(Watcher) /\ Len(monitors') = Len(monitors) + 1
      /\ monitors'[Len(monitors) + 1] = m
      /\ \A k \in 1 .. Len(monitors) : monitors'[k] = monitors[k]
  BY <1>1, <1>2 DEF WatchInv
<1>5. ASSUME NEW n \in DOMAIN transactions PROVE Due(transactions', n) <=> Due(transactions, n)
  <2>1. n \in Nat \ {0} /\ 1 .. n \subseteq DOMAIN transactions
    BY <1>3
  <2>2. PICK later, rows : later = transactions' /\ rows = transactions
    OBVIOUS
  <2>3. \A k \in 1 .. n : later[k].user = rows[k].user /\ later[k].amount = rows[k].amount
    BY <1>3, <2>1, <2>2
  <2>4. Due(later, n) <=> Due(rows, n)
    BY <2>1, <2>3, DueStays
  <2> QED BY <2>2, <2>4
<1>6. ASSUME ~unmonitored', NEW n \in DOMAIN transactions', Due(transactions', n)
      PROVE  Noticed(monitors'[n], Stored(alerts', n))
  <2>1. CASE n \in DOMAIN transactions
    <3>1. ~unmonitored /\ Due(transactions, n)
      BY <1>1, <1>5, <1>6, <2>1
    <3>2. Noticed(monitors[n], Stored(alerts, n))
      BY <2>1, <3>1 DEF WatchInv
    <3>3. monitors'[n] = monitors[n] /\ alerts' = alerts
      BY <1>1, <1>3, <1>4, <2>1 DEF WatchInv
    <3> QED BY <3>2, <3>3
  <2>2. CASE n \notin DOMAIN transactions
    <3>1. n = Len(monitors) + 1
      BY <1>3, <2>2 DEF WatchInv
    <3> QED BY <1>2, <1>4, <3>1 DEF Noticed
  <2> QED BY <2>1, <2>2
<1>7. ASSUME NEW n \in DOMAIN transactions'
      PROVE  \/ n \in DOMAIN transactions /\ monitors'[n] = monitors[n]
             \/ monitors'[n].at = "velocity"
  BY <1>2, <1>3, <1>4 DEF WatchInv
<1>8. SplitsFound'
  BY <1>5, <1>7 DEF WatchInv, SplitsFound
<1>9. ~RiskColumn => alerts' = {} /\ \A n \in DOMAIN transactions' : monitors'[n].at # "store"
  BY <1>1, <1>7 DEF WatchInv
<1> QED BY <1>3, <1>4, <1>6, <1>8, <1>9 DEF WatchInv

\* The later steps of a call write columns of its row that monitoring does not read.
LEMMA AftermathWatches ==
    ASSUME OwnInv, WatchInv, NEW c \in Calls,
           \/ TravelRule(c) \/ RecordClearing(c) \/ RecordHash(c)
           \/ \E arrives, answered \in BOOLEAN : SubmitClearing(c, arrives, answered)
                                                 \/ SendL1(c, arrives, answered)
    PROVE  WatchInv'
<1>1. UNCHANGED <<monitors, alerts, unmonitored>>
  BY DEF TravelRule, RecordClearing, RecordHash, SubmitClearing, SendL1
<1>2. transactions \in Seq(Rows)
  BY DEF OwnInv, Tables
<1>3. ASSUME NEW n, NEW x,
             \/ transactions' = [transactions EXCEPT ![n].travel = x]
             \/ transactions' = [transactions EXCEPT ![n].clearing_id = x]
             \/ transactions' = [transactions EXCEPT ![n].blockchain_hash = x]
      PROVE  /\ Len(transactions') = Len(transactions)
             /\ DOMAIN transactions' = DOMAIN transactions
             /\ \A k \in DOMAIN transactions : /\ transactions'[k].user = transactions[k].user
                                               /\ transactions'[k].amount = transactions[k].amount
  <2>1. \A S : \A s \in Seq(S) : \A k \in DOMAIN s : s[k] \in S
    OBVIOUS
  <2>2. \A k \in DOMAIN transactions : transactions[k] \in Rows
    BY <1>2, <2>1
  <2>3. DOMAIN transactions = 1 .. Len(transactions) /\ Len(transactions) \in Nat
    BY <1>2
  <2>4. DOMAIN transactions' = DOMAIN transactions
    BY <1>3
  <2>5. Len(transactions') = Len(transactions)
    BY <1>3, <2>3, <2>4
  <2>6. \A k \in DOMAIN transactions : /\ transactions'[k].user = transactions[k].user
                                       /\ transactions'[k].amount = transactions[k].amount
    BY <1>3, <2>2 DEF Rows
  <2> QED BY <2>4, <2>5, <2>6
<1>4. /\ Len(transactions') = Len(transactions) /\ DOMAIN transactions' = DOMAIN transactions
      /\ \A k \in DOMAIN transactions : /\ transactions'[k].user = transactions[k].user
                                        /\ transactions'[k].amount = transactions[k].amount
  BY <1>3 DEF TravelRule, RecordClearing, RecordHash, SubmitClearing, SendL1
<1> QED BY <1>1, <1>4, WatchStands

\* The invariant holds at first, and every step keeps it.
LEMMA WatchAlways == Spec => []WatchInv
<1>1. Init => WatchInv
  <2> SUFFICES ASSUME Init PROVE WatchInv
    OBVIOUS
  <2>1. monitors = <<>> /\ transactions = <<>> /\ alerts = {}
    BY DEF Init
  <2> QED BY <2>1 DEF WatchInv, SplitsFound
<1>2. OwnInv /\ WatchInv /\ [Next]_vars => WatchInv'
  <2> SUFFICES ASSUME OwnInv, WatchInv, [Next]_vars PROVE WatchInv'
    OBVIOUS
  <2>1. ASSUME UNCHANGED <<transactions, monitors, alerts, unmonitored>> PROVE WatchInv'
    BY <2>1, WatchStands
  <2>2. CASE \/ KycNext /\ UNCHANGED <<jurisdictions, aftermath>>
             \/ JurisdictionsNext /\ UNCHANGED <<profiles, aftermath>>
             \/ UNCHANGED vars
    BY <2>1, <2>2 DEF vars
  <2>3. CASE \E c \in Calls, u \in Users, a \in Amounts : BeginPayment(c, u, a)
    BY <2>1, <2>3 DEF BeginPayment
  <2>4. ASSUME NEW c \in Calls, Step(c) \/ FailBefore(c) PROVE WatchInv'
    <3>1. CASE \/ \E i \in DOMAIN profiles : CheckKyc(c, i) \/ ReadLimits(c, i)
               \/ RefuseUnknown(c) \/ CheckDaily(c) \/ FailBefore(c)
      BY <2>1, <3>1 DEF CheckKyc, ReadLimits, RefuseUnknown, CheckDaily, FailBefore
    <3>2. CASE CommitPayment(c)
      BY <3>2, CommitWatches
    <3>3. CASE \/ TravelRule(c) \/ RecordClearing(c) \/ RecordHash(c)
               \/ \E arrives, answered \in BOOLEAN : SubmitClearing(c, arrives, answered)
                                                     \/ SendL1(c, arrives, answered)
      BY <3>3, AftermathWatches
    <3> QED BY <2>4, <3>1, <3>2, <3>3 DEF Step
  <2>5. CASE Restart \/ \E n \in DOMAIN transactions : Monitor(n) \/ LoseMonitor(n)
    BY <2>5, MonitorWatches, LossWatches
  <2> QED BY <2>2, <2>3, <2>4, <2>5 DEF Next
<1> QED BY <1>1, <1>2, OwnAlways, PTL DEF Spec

\* "structuring detection": payments split just below the threshold are found, however their calls
\* and their monitorings interleave; a schema with the column that the last check selects keeps an
\* alert of them once the monitorings are through and none was lost, and with that of the
\* repository's migrations, which have no such column, no alert of any kind is ever stored.
THEOREM SplitsAreNoticed ==
    Spec => [](SplitsFound /\ IF RiskColumn THEN StructuringNoticed ELSE alerts = {})
<1>1. OwnInv /\ WatchInv /\ RiskColumn => StructuringNoticed
  <2> SUFFICES ASSUME OwnInv, WatchInv, RiskColumn, ~unmonitored,
                      \A n \in DOMAIN monitors : monitors[n].at = "done",
                      NEW n \in DOMAIN transactions, Cardinality(Splits(n)) >= StructuringCount
               PROVE  \E alert \in alerts :
                          alert.kind = "structuring" /\ alert.transaction \in Splits(n)
    BY DEF StructuringNoticed
  <2>1. DOMAIN transactions = 1 .. Len(transactions) /\ Len(transactions) \in Nat
    BY DEF OwnInv, Tables
  <2>2. Splits(n) \in SUBSET (1 .. Len(transactions))
    BY <2>1 DEF Splits, OfUser
  <2>3. Splits(n) # {}
    <3>1. Cardinality({}) = 0
      BY FS_EmptySet
    <3> QED BY <3>1, PaymentAssumption
  <2>4. PICK k \in Splits(n) : \A j \in Splits(n) : j <= k
    BY <2>1, <2>2, <2>3, LargestElement
  <2>5. /\ k \in DOMAIN transactions /\ transactions[k].user = transactions[n].user
        /\ JustBelow(transactions[k].amount)
    BY <2>4 DEF Splits, OfUser
  <2>6. Early(transactions, k) = Splits(n)
    BY <2>1, <2>4, <2>5 DEF Early, Splits, OfUser
  <2>7. Due(transactions, k)
    BY <2>5, <2>6 DEF Due
  <2>8. Noticed(monitors[k], Stored(alerts, k)) /\ monitors[k].at = "done"
    BY <2>1, <2>5, <2>7 DEF WatchInv
  <2>9. [transaction |-> k, kind |-> "structuring"] \in alerts
    BY <2>8 DEF Noticed, Stored
  <2> QED BY <2>4, <2>9
<1>2. OwnInv /\ WatchInv => SplitsFound /\ IF RiskColumn THEN StructuringNoticed ELSE alerts = {}
  BY <1>1 DEF WatchInv
<1> QED BY <1>2, OwnAlways, WatchAlways, PTL

-----------------------------------------------------------------------------
(***************************************************************************)
(* ComplianceDesk.                                                         *)
(***************************************************************************)
HIDE DEF At, Goto, Note, Finish, Enter, AtOnce, Begin, Fail, Record, callVars, aftermath

(***************************************************************************)
(* Business days.                                                          *)
(***************************************************************************)
\* Some of the numbers is the least.
LEMMA LeastElement ==
    ASSUME NEW S \in SUBSET Nat, S # {}
    PROVE  \E n \in S : \A m \in S : n <= m
<1>1. PICK n \in S : \A m \in S : ~(<<m, n>> \in OpToRel(<, Nat))
  BY WFMin, NatLessThanWellFounded
<1>2. \A m \in S : <<m, n>> \in OpToRel(<, Nat) <=> m < n
  BY DEF OpToRel
<1>3. \A m \in S : m \in Nat /\ n \in Nat /\ ~(m < n)
  BY <1>1, <1>2
<1>4. \A m \in S : n <= m
  BY <1>3
<1> QED BY <1>4

\* Induction, over the numbers of a set: the next one of a number of it is in it too.
LEMMA Inductive ==
    ASSUME NEW S, 0 \in S, \A n \in Nat : n \in S => n + 1 \in S
    PROVE  Nat \subseteq S
<1> SUFFICES ASSUME Nat \ S # {} PROVE FALSE
  OBVIOUS
<1>1. PICK n \in Nat \ S : \A m \in Nat \ S : n <= m
  BY LeastElement
<1>2. n # 0
  BY <1>1
<1>3. n - 1 \in Nat /\ n - 1 \notin Nat \ S /\ n - 1 + 1 = n
  BY <1>1, <1>2
<1>4. n - 1 \in S
  BY <1>3
<1>5. n \in S
  BY <1>3, <1>4
<1> QED BY <1>1, <1>5

\* The loop of calculateBusinessDays steps from a day to the next business day.
NextBusinessDay(day) ==
    IF Business(day + 1) THEN day + 1
    ELSE IF Business(day + 2) THEN day + 2
    ELSE day + 3

\* The days the loop has reached, after each business day it has counted.
Steps(f, start, days) ==
    f = [n \in 0 .. days |-> IF n = 0 THEN start ELSE NextBusinessDay(f[n - 1])]

\* Of three days in a row one is a business day, and the loop stops at the first.
LEMMA NextDayFacts ==
    ASSUME NEW day \in Nat
    PROVE  /\ NextBusinessDay(day) \in day + 1 .. day + 3 /\ Business(NextBusinessDay(day))
           /\ \A d \in day + 1 .. NextBusinessDay(day) - 1 : ~Business(d)
<1>1. Business(day + 1) \/ Business(day + 2) \/ Business(day + 3)
  BY DEF Business, Weekday, Sunday, Saturday
<1>2. CASE Business(day + 1)
  <2>1. NextBusinessDay(day) = day + 1
    BY <1>2 DEF NextBusinessDay
  <2> QED BY <1>2, <2>1
<1>3. CASE ~Business(day + 1) /\ Business(day + 2)
  <2>1. NextBusinessDay(day) = day + 2
    BY <1>3 DEF NextBusinessDay
  <2>2. \A d \in day + 1 .. day + 1 : d = day + 1
    OBVIOUS
  <2> QED BY <1>3, <2>1, <2>2
<1>4. CASE ~Business(day + 1) /\ ~Business(day + 2)
  <2>1. NextBusinessDay(day) = day + 3
    BY <1>4 DEF NextBusinessDay
  <2>2. \A d \in day + 1 .. day + 2 : d = day + 1 \/ d = day + 2
    OBVIOUS
  <2> QED BY <1>1, <1>4, <2>1, <2>2
<1> QED BY <1>2, <1>3, <1>4

\* There is such a list of days, however many are to be counted.
LEMMA StepsExist ==
    ASSUME NEW start, NEW days \in Nat
    PROVE  \E f : Steps(f, start, days)
<1> DEFINE S == {n \in Nat : \E f : Steps(f, start, n)}
<1>1. 0 \in S
  <2> DEFINE f == [n \in 0 .. 0 |-> start]
  <2>1. Steps(f, start, 0)
    BY DEF Steps
  <2> QED BY <2>1
<1>2. ASSUME NEW n \in Nat, n \in S PROVE n + 1 \in S
  <2>1. PICK f : Steps(f, start, n)
    BY <1>2
  <2>0. PICK g : g = [k \in 0 .. n + 1 |-> IF k = n + 1 THEN NextBusinessDay(f[n]) ELSE f[k]]
    OBVIOUS
  <2>2. DOMAIN f = 0 .. n /\ \A k \in 0 .. n : f[k] = IF k = 0 THEN start ELSE NextBusinessDay(f[k - 1])
    <3>1. f = [k \in 0 .. n |-> IF k = 0 THEN start ELSE NextBusinessDay(f[k - 1])]
      BY <2>1 DEF Steps
    <3> QED BY <3>1
  <2>3. \A k \in 0 .. n + 1 : g[k] = IF k = 0 THEN start ELSE NextBusinessDay(g[k - 1])
    <3>1. \A k \in 0 .. n : g[k] = f[k]
      BY <2>0
    <3>2. ASSUME NEW k \in 0 .. n PROVE g[k] = IF k = 0 THEN start ELSE NextBusinessDay(g[k - 1])
      <4>1. k # 0 => k - 1 \in 0 .. n
        OBVIOUS
      <4> QED BY <2>2, <3>1, <4>1
    <3>3. g[n + 1] = NextBusinessDay(g[n]) /\ n + 1 # 0 /\ n + 1 - 1 = n
      BY <2>0, <3>1
    <3>4. \A k \in 0 .. n + 1 : k \in 0 .. n \/ k = n + 1
      OBVIOUS
    <3> QED BY <3>2, <3>3, <3>4
  <2>4. g = [k \in 0 .. n + 1 |-> IF k = 0 THEN start ELSE NextBusinessDay(g[k - 1])]
    BY <2>0, <2>3
  <2>5. \E h : Steps(h, start, n + 1)
    BY <2>4 DEF Steps
  <2> QED BY <2>5
<1> HIDE DEF S
<1>3. Nat \subseteq S
  BY <1>1, <1>2, Inductive
<1> QED BY <1>3 DEF S

\* DueDate is the last of them.
LEMMA DueDateIsLast ==
    ASSUME NEW start, NEW days \in Nat
    PROVE  \E f : Steps(f, start, days) /\ DueDate(start, days) = f[days]
<1>1. DueDate(start, days) = (CHOOSE f : Steps(f, start, days))[days]
  BY DEF DueDate, Steps, NextBusinessDay
<1>2. Steps(CHOOSE f : Steps(f, start, days), start, days)
  BY StepsExist
<1> QED BY <1>1, <1>2

\* The business days after one day, up to another.
Worked(start, day) == {d \in start + 1 .. day : Business(d)}

\* The n-th of the days is a later one, up to which n business days lie.
LEMMA StepsCount ==
    ASSUME NEW start \in Nat, NEW days \in Nat, NEW f, Steps(f, start, days), NEW k \in 0 .. days
    PROVE  /\ f[k] \in Nat /\ f[k] >= start
           /\ k > 0 => f[k] > start /\ Business(f[k])
           /\ IsFiniteSet(Worked(start, f[k])) /\ Cardinality(Worked(start, f[k])) = k
<1> DEFINE Good(n) == /\ f[n] \in Nat /\ f[n] >= start
                      /\ n > 0 => f[n] > start /\ Business(f[n])
                      /\ IsFiniteSet(Worked(start, f[n])) /\ Cardinality(Worked(start, f[n])) = n
           S == {n \in Nat : n <= days => Good(n)}
<1>1. f[0] = start /\ \A n \in 1 .. days : f[n] = NextBusinessDay(f[n - 1])
  <2>1. f = [n \in 0 .. days |-> IF n = 0 THEN start ELSE NextBusinessDay(f[n - 1])]
    BY DEF Steps
  <2> QED BY <2>1
<1>2. 0 \in S
  <2>1. Worked(start, start) = {}
    BY DEF Worked
  <2> QED BY <1>1, <2>1, FS_EmptySet
<1>3. ASSUME NEW n \in Nat, n \in S PROVE n + 1 \in S
  <2> SUFFICES ASSUME n + 1 <= days PROVE Good(n + 1)
    OBVIOUS
  <2>1. Good(n)
    BY <1>3
  <2>2. PICK day \in Nat : day = f[n]
    BY <2>1
  <2>3. PICK next \in Nat : next = NextBusinessDay(day)
    BY NextDayFacts
  <2>4. f[n + 1] = next
    BY <1>1, <2>2, <2>3
  <2>5. /\ next >= day + 1 /\ Business(next) /\ \A d \in day + 1 .. next - 1 : ~Business(d)
    BY <2>3, NextDayFacts
  <2>6. day >= start
    BY <2>1, <2>2
  <2>7. Worked(start, next) = Worked(start, day) \cup {next}
    BY <2>5, <2>6 DEF Worked
  <2>8. next \notin Worked(start, day)
    BY <2>5 DEF Worked
  <2>9. IsFiniteSet(Worked(start, next)) /\ Cardinality(Worked(start, next)) = n + 1
    <3>1. IsFiniteSet(Worked(start, day)) /\ Cardinality(Worked(start, day)) = n
      BY <2>1, <2>2
    <3> QED BY <2>7, <2>8, <3>1, FS_AddElement
  <2> QED BY <2>4, <2>5, <2>6, <2>9
<1> HIDE DEF S
<1>4. Nat \subseteq S
  BY <1>2, <1>3, Inductive
<1> QED BY <1>4 DEF S

\* calculateBusinessDays finds the day on which that many business days have gone by.
LEMMA DueDateCounts ==
    ASSUME NEW start \in Nat, NEW days \in Nat \ {0}
    PROVE  /\ DueDate(start, days) \in Nat /\ DueDate(start, days) > start
           /\ Business(DueDate(start, days))
           /\ Cardinality(Worked(start, DueDate(start, days))) = days
<1>1. PICK f : Steps(f, start, days) /\ DueDate(start, days) = f[days]
  BY DueDateIsLast
<1>2. days \in 0 .. days /\ days > 0 /\ days \in Nat
  OBVIOUS
<1> QED BY <1>1, <1>2, StepsCount

\* That many business days have gone by exactly from that day on.
LEMMA DueDateDecides ==
    ASSUME NEW start \in Nat, NEW days \in Nat \ {0}, NEW day \in Int
    PROVE  DueDate(start, days) <= day <=> Cardinality(Worked(start, day)) >= days
<1>1. PICK due \in Nat : due = DueDate(start, days)
  BY DueDateCounts
<1>2. /\ due > start /\ Business(due) /\ Cardinality(Worked(start, due)) = days
  BY <1>1, DueDateCounts
<1>3. IsFiniteSet(Worked(start, due)) /\ IsFiniteSet(Worked(start, day))
  <2>1. \A d \in Int : IsFiniteSet(start + 1 .. d)
    BY FS_Interval
  <2>2. \A d \in Int : Worked(start, d) \in SUBSET (start + 1 .. d)
    BY DEF Worked
  <2> QED BY <2>1, <2>2, FS_Subset
<1>4. Cardinality(Worked(start, due)) \in Nat /\ Cardinality(Worked(start, day)) \in Nat
  BY <1>3, FS_CardinalityType
<1>5. CASE due <= day
  <2>1. Worked(start, due) \in SUBSET Worked(start, day)
    BY <1>5 DEF Worked
  <2> QED BY <1>1, <1>2, <1>3, <1>4, <1>5, <2>1, FS_Subset
<1>6. CASE day < due
  <2>1. Worked(start, day) \in SUBSET Worked(start, due)
    BY <1>6 DEF Worked
  <2>2. due \in Worked(start, due) /\ due \notin Worked(start, day)
    BY <1>2, <1>6 DEF Worked
  <2>3. /\ Cardinality(Worked(start, day)) <= Cardinality(Worked(start, due))
        /\ Cardinality(Worked(start, due)) = Cardinality(Worked(start, day))
              => Worked(start, due) = Worked(start, day)
    BY <1>3, <2>1, FS_Subset
  <2>4. Cardinality(Worked(start, day)) < days
    BY <1>2, <1>4, <2>2, <2>3
  <2> QED BY <1>1, <1>4, <1>6, <2>4
<1> QED BY <1>1, <1>5, <1>6

-----------------------------------------------------------------------------
(***************************************************************************)
(* The invariant.                                                          *)
(***************************************************************************)
USE DEF At, Goto, Note, Finish, Enter, AtOnce, Begin, Fail, callVars, legalVars

Labels == {"idle", "profile", "document", "required", "consented", "screen", "pep", "upload"}

\* Every list is on record for the user.
Covered(u) == \A n \in DOMAIN Lists : <<u, Lists[n]>> \in screenings

\* What a call at a place has read or written for profiles and screenings.
KycReady(place, r) ==
    /\ place \in {"profile", "screen", "pep"} => r.user \in Users
    /\ place = "screen" => /\ "user" \in DOMAIN r /\ r.next \in 1 .. Len(Lists) + 1
                           /\ \A n \in 1 .. r.next - 1 : <<r.user, Lists[n]>> \in screenings
    /\ place = "pep" => Covered(r.user)
    /\ place = "upload" => r.profile \in DOMAIN profiles

\* The version a call is about to insert: it unsets older ones of its type and jurisdiction
\* only, and all there were when it began if users have to accept anew.
Drafted(r) ==
    /\ r.type \in Types /\ r.scope \in Scopes /\ r.reaccept \in BOOLEAN
    /\ r.seen \in 0 .. Len(documents)
    /\ r.unset \subseteq Versions(r.type, r.scope)
    /\ r.reaccept => \A d \in Current \cap Versions(r.type, r.scope) : d <= r.seen => d \in r.unset

\* What a call at a place has read of documents: no type it was asked for is ever without a
\* version in force.
LegalReady(place, r) ==
    /\ place = "document" => Drafted(r)
    /\ place \in {"required", "consented"} => r.user \in Users /\ r.types \subseteq Types
    /\ place = "required" => /\ {"user", "types"} \subseteq DOMAIN r
                             /\ \A t \in r.types : \E d \in InForce(r.scope) : documents[d].type = t
    /\ place = "consented" => /\ r.listed \subseteq DOMAIN documents
                              /\ \A t \in r.types : \E d \in r.listed : documents[d].type = t

CallsFit ==
    /\ pc \in [Calls -> Labels] /\ DOMAIN req = Calls /\ failures \in 0 .. MaxFailures
    /\ \A c \in Calls : KycReady(pc[c], req[c]) /\ LegalReady(pc[c], req[c])

KycFits ==
    /\ KycTypeOK
    /\ screenings \subseteq Users \X {Lists[n] : n \in DOMAIN Lists}
    /\ (\E S : kyc_documents \in Seq(S))
    /\ \A n \in DOMAIN kyc_documents : kyc_documents[n] \in DOMAIN profiles
    /\ \A i \in DOMAIN profiles : profiles[i].screened \/ profiles[i].pep => Covered(profiles[i].user)

LegalFits ==
    /\ LegalTypeOK
    /\ \A pair \in DOMAIN consents : consents[pair] => pair \in accepted
    /\ ClearedMeansAccepted /\ OneCurrentUnlessKeptOrRaced

ComplaintsFit ==
    /\ ComplaintsTypeOK
    /\ \A i \in DOMAIN complaints : complaints[i].due = DueDate(complaints[i].submitted, ResponseDays)

DeskInv == CallsFit /\ KycFits /\ LegalFits /\ ComplaintsFit

-----------------------------------------------------------------------------
\* What lasts: rows stay, keep their type and jurisdiction, and are not put in force again; a
\* new version of a document replaces the ones it unsets.
KycGrows == screenings \subseteq screenings' /\ DOMAIN profiles \subseteq DOMAIN profiles'
LegalGrows ==
    /\ Len(documents) \in Nat /\ Len(documents') \in Nat /\ Len(documents) <= Len(documents')
    /\ DOMAIN documents = 1 .. Len(documents) /\ DOMAIN documents' = 1 .. Len(documents')
    /\ \A d \in DOMAIN documents : /\ documents'[d].type = documents[d].type
                                   /\ documents'[d].scope = documents[d].scope
                                   /\ documents'[d].current => documents[d].current
    /\ \A d \in Current : \E e \in Current' : /\ documents'[e].type = documents[d].type
                                              /\ documents'[e].scope = documents[d].scope

\* What a call has read of profiles and screenings lasts.
LEMMA KycReadyStays ==
    ASSUME NEW place, NEW r, KycReady(place, r), KycGrows
    PROVE  KycReady(place, r)'
BY DEF KycReady, KycGrows, Covered

\* So does what it has read of documents.
LEMMA LegalReadyStays ==
    ASSUME NEW place, NEW r, LegalReady(place, r), LegalGrows
    PROVE  LegalReady(place, r)'
<1>1. ASSUME Drafted(r) PROVE Drafted(r)'
  <2>1. r.seen \in 0 .. Len(documents')
    BY <1>1 DEF Drafted, LegalGrows
  <2>2. r.unset \subseteq Versions(r.type, r.scope)'
    BY <1>1 DEF Drafted, LegalGrows, Versions
  <2>3. ASSUME r.reaccept, NEW d \in (Current \cap Versions(r.type, r.scope))', d <= r.seen
        PROVE  d \in r.unset
    <3>1. d \in DOMAIN documents
      BY <1>1, <2>3 DEF Drafted, LegalGrows, Current
    <3>2. d \in Current \cap Versions(r.type, r.scope)
      BY <2>3, <3>1 DEF LegalGrows, Current, Versions
    <3> QED BY <1>1, <2>3, <3>2 DEF Drafted
  <2> QED BY <1>1, <2>1, <2>2, <2>3 DEF Drafted
<1>2. ASSUME NEW t \in r.types, \E d \in InForce(r.scope) : documents[d].type = t
      PROVE  \E d \in InForce(r.scope)' : documents'[d].type = t
  <2>1. PICK d \in InForce(r.scope) : documents[d].type = t
    BY <1>2
  <2>2. d \in Current /\ documents[d].scope \in {r.scope, Global}
    BY DEF InForce
  <2>3. PICK e \in Current' : /\ documents'[e].type = documents[d].type
                              /\ documents'[e].scope = documents[d].scope
    BY <2>2 DEF LegalGrows
  <2> QED BY <2>1, <2>2, <2>3 DEF InForce
<1>3. ASSUME r.listed \subseteq DOMAIN documents, NEW t, \E d \in r.listed : documents[d].type = t
      PROVE  \E d \in r.listed : documents'[d].type = t
  BY <1>3 DEF LegalGrows
<1>4. DOMAIN documents \subseteq DOMAIN documents'
  BY DEF LegalGrows
<1> QED BY <1>1, <1>2, <1>3, <1>4 DEF LegalReady

\* Nothing changes in a part that a step leaves alone.
LEMMA Unchanged ==
    ASSUME DeskInv
    PROVE  /\ UNCHANGED <<profiles, screenings, kyc_documents>> => KycFits' /\ KycGrows
           /\ UNCHANGED legalVars => LegalFits' /\ LegalGrows
           /\ UNCHANGED complaints => ComplaintsFit'
<1>1. ASSUME UNCHANGED <<profiles, screenings, kyc_documents>> PROVE KycFits' /\ KycGrows
  BY <1>1 DEF DeskInv, KycFits, KycGrows, KycTypeOK, Covered
<1>2. ASSUME UNCHANGED legalVars PROVE LegalFits' /\ LegalGrows
  <2>1. LegalFits'
    BY <1>2 DEF DeskInv, LegalFits, LegalTypeOK, ClearedMeansAccepted, OneCurrentUnlessKeptOrRaced,
                Current
  <2>2. DOMAIN documents = 1 .. Len(documents) /\ Len(documents) \in Nat
    BY DEF DeskInv, LegalFits, LegalTypeOK
  <2>3. LegalGrows
    BY <1>2, <2>2 DEF LegalGrows, Current
  <2> QED BY <2>1, <2>3
<1>3. ASSUME UNCHANGED complaints PROVE ComplaintsFit'
  BY <1>3 DEF DeskInv, ComplaintsFit, ComplaintsTypeOK
<1> QED BY <1>1, <1>2, <1>3

\* At most one call moves.
LEMMA DeskCallMoves ==
    ASSUME DeskInv, KycGrows, LegalGrows, NEW c \in Calls, NEW l \in Labels, NEW r,
           pc' = [pc EXCEPT ![c] = l],
           req' = [req EXCEPT ![c] = r] \/ (req' = req /\ r = req[c]),
           failures' \in 0 .. MaxFailures, KycReady(l, r)', LegalReady(l, r)'
    PROVE  CallsFit'
<1>1. pc \in [Calls -> Labels] /\ DOMAIN req = Calls
  BY DEF DeskInv, CallsFit
<1>2. pc' \in [Calls -> Labels] /\ DOMAIN req' = Calls /\ pc'[c] = l /\ req'[c] = r
  BY <1>1
<1>3. ASSUME NEW d \in Calls PROVE KycReady(pc[d], req[d])' /\ LegalReady(pc[d], req[d])'
  <2>1. PICK place, q : place = pc'[d] /\ q = req'[d]
    OBVIOUS
  <2>2. CASE d = c
    BY <1>2, <2>2
  <2>3. CASE d # c
    <3>1. place = pc[d] /\ q = req[d]
      BY <1>1, <2>1, <2>3
    <3>2. KycReady(place, q) /\ LegalReady(place, q)
      BY <3>1 DEF DeskInv, CallsFit
    <3>3. KycReady(place, q)' /\ LegalReady(place, q)'
      BY <3>2, KycReadyStays, LegalReadyStays
    <3> QED BY <2>1, <3>3
  <2> QED BY <2>2, <2>3
<1> QED BY <1>2, <1>3 DEF CallsFit

\* Or none.
LEMMA NoDeskCallMoves ==
    ASSUME DeskInv, KycGrows, LegalGrows, UNCHANGED <<pc, req, failures>>
    PROVE  CallsFit'
<1>1. ASSUME NEW d \in Calls PROVE KycReady(pc[d], req[d])' /\ LegalReady(pc[d], req[d])'
  <2>1. PICK place, q : place = pc[d] /\ q = req[d]
    OBVIOUS
  <2>2. KycReady(place, q) /\ LegalReady(place, q)
    BY <2>1 DEF DeskInv, CallsFit
  <2>3. KycReady(place, q)' /\ LegalReady(place, q)'
    BY <2>2, KycReadyStays, LegalReadyStays
  <2> QED BY <2>1, <2>3
<1> QED BY <1>1 DEF DeskInv, CallsFit

\* A call that has ended has nothing to be ready for.
LEMMA IdleIsReady ==
    ASSUME NEW r PROVE KycReady("idle", r)' /\ LegalReady("idle", r)'
BY DEF KycReady, LegalReady

-----------------------------------------------------------------------------
(***************************************************************************)
(* Profiles and screenings.                                                *)
(***************************************************************************)
\* A step of a call on profiles and screenings only: the call goes on ready.
LEMMA KycStep ==
    ASSUME DeskInv, NEW c \in Calls, NEW l \in Labels, NEW r,
           pc' = [pc EXCEPT ![c] = l],
           req' = [req EXCEPT ![c] = r] \/ (req' = req /\ r = req[c]),
           failures' \in 0 .. MaxFailures,
           l \in {"idle", "profile", "screen", "pep", "upload"}, KycReady(l, r)',
           UNCHANGED <<legalVars, complaints>>, KycGrows, KycFits'
    PROVE  DeskInv'
<1>1. LegalReady(l, r)'
  BY DEF LegalReady
<1>2. LegalFits' /\ LegalGrows /\ ComplaintsFit'
  BY Unchanged
<1>3. CallsFit'
  BY <1>1, <1>2, DeskCallMoves
<1> QED BY <1>2, <1>3 DEF DeskInv

\* The rows of kyc_profiles.
ProfileRow == [user : Users, status : {"pending", "approved"}, tier : {0} \cup Tiers,
               screened : BOOLEAN, pep : BOOLEAN]

\* Rows change in columns, and new ones have not been screened: whoever was screened before,
\* or is now that every list is on record, stays covered.
LEMMA ProfilesChange ==
    ASSUME DeskInv, profiles' \in Seq(ProfileRow), Len(profiles) <= Len(profiles'),
           UNCHANGED <<screenings, kyc_documents>>,
           \A i \in DOMAIN profiles' :
              \/ ~profiles'[i].screened /\ ~profiles'[i].pep
              \/ Covered(profiles'[i].user)
              \/ /\ i \in DOMAIN profiles /\ profiles'[i].user = profiles[i].user
                 /\ profiles'[i].screened = profiles[i].screened
                 /\ profiles'[i].pep = profiles[i].pep
    PROVE  KycFits' /\ KycGrows
<1>1. profiles \in Seq(ProfileRow)
  BY DEF DeskInv, KycFits, KycTypeOK, ProfileRow
<1>2. DOMAIN profiles \subseteq DOMAIN profiles'
  BY <1>1
<1>3. KycTypeOK'
  BY DEF KycTypeOK, ProfileRow
<1>4. \A u : Covered(u) => Covered(u)'
  BY DEF Covered
<1>5. ASSUME NEW i \in DOMAIN profiles', profiles'[i].screened \/ profiles'[i].pep
      PROVE  Covered(profiles[i].user)'
  <2>1. PICK u : u = profiles'[i].user
    OBVIOUS
  <2>2. CASE Covered(profiles'[i].user)
    BY <1>4, <2>1, <2>2
  <2>3. CASE /\ i \in DOMAIN profiles /\ profiles'[i].user = profiles[i].user
             /\ profiles'[i].screened = profiles[i].screened
             /\ profiles'[i].pep = profiles[i].pep
    <3>1. profiles[i].screened \/ profiles[i].pep
      BY <1>5, <2>3
    <3>2. Covered(u)
      BY <2>1, <2>3, <3>1 DEF DeskInv, KycFits
    <3> QED BY <1>4, <2>1, <3>2
  <2> QED BY <1>5, <2>2, <2>3
<1>6. KycGrows
  BY <1>2 DEF KycGrows
<1> QED BY <1>2, <1>3, <1>5, <1>6 DEF DeskInv, KycFits

\* Elements of the table.
LEMMA RowFacts ==
    ASSUME DeskInv
    PROVE  /\ profiles \in Seq(ProfileRow) /\ Len(profiles) \in Nat
           /\ DOMAIN profiles = 1 .. Len(profiles)
           /\ \A i \in DOMAIN profiles : /\ profiles[i] \in ProfileRow /\ profiles[i].user \in Users
                                         /\ profiles[i].screened \in BOOLEAN
                                         /\ profiles[i].pep \in BOOLEAN
<1>1. profiles \in Seq(ProfileRow)
  BY DEF DeskInv, KycFits, KycTypeOK, ProfileRow
<1>2. \A S : \A s \in Seq(S) : \A k \in DOMAIN s : s[k] \in S
  OBVIOUS
<1>3. \A i \in DOMAIN profiles : profiles[i] \in ProfileRow
  BY <1>1, <1>2
<1> QED BY <1>1, <1>3 DEF ProfileRow

\* A submission begins, and writes what its SELECT has decided.
LEMMA SubmitsFit ==
    ASSUME DeskInv, UNCHANGED <<legalVars, complaints, screenings, kyc_documents>>,
           NEW c \in Calls, WriteProfile(c) \/ \E u \in Users : BeginSubmit(c, u)
    PROVE  DeskInv'
<1>1. ASSUME NEW u \in Users, BeginSubmit(c, u) PROVE DeskInv'
  <2>1. PICK r : r = [op |-> "submit", user |-> u, known |-> ProfilesOf(u) # {}]
    OBVIOUS
  <2>2. /\ pc' = [pc EXCEPT ![c] = "profile"] /\ req' = [req EXCEPT ![c] = r]
        /\ UNCHANGED <<failures, profiles>>
    BY <1>1, <2>1 DEF BeginSubmit
  <2>3. r.user \in Users
    BY <2>1
  <2>4. KycReady("profile", r)'
    BY <2>3 DEF KycReady
  <2>5. KycFits' /\ KycGrows
    BY <2>2, Unchanged
  <2>6. failures' \in 0 .. MaxFailures
    BY <2>2 DEF DeskInv, CallsFit
  <2> QED BY <2>2, <2>4, <2>5, <2>6, KycStep DEF Labels
<1>2. CASE WriteProfile(c)
  <2>1. PICK u : u = req[c].user
    OBVIOUS
  <2>2. pc[c] = "profile"
    BY <1>2 DEF WriteProfile
  <2>3. KycReady("profile", req[c])
    BY <2>2 DEF DeskInv, CallsFit
  <2>4. u \in Users
    BY <2>1, <2>3 DEF KycReady
  <2>5. /\ profiles \in Seq(ProfileRow) /\ Len(profiles) \in Nat
        /\ DOMAIN profiles = 1 .. Len(profiles)
        /\ \A i \in DOMAIN profiles : profiles[i] \in ProfileRow
    BY RowFacts
  <2>6. KycFits' /\ KycGrows
    <3>1. CASE profiles' = [i \in DOMAIN profiles |->
                              IF i \in ProfilesOf(u) THEN [profiles[i] EXCEPT !.status = "pending"]
                                                     ELSE profiles[i]]
      <4>1. \A i \in DOMAIN profiles :
               /\ [profiles[i] EXCEPT !.status = "pending"] \in ProfileRow
               /\ [profiles[i] EXCEPT !.status = "pending"].user = profiles[i].user
               /\ [profiles[i] EXCEPT !.status = "pending"].screened = profiles[i].screened
               /\ [profiles[i] EXCEPT !.status = "pending"].pep = profiles[i].pep
        BY <2>5 DEF ProfileRow
      <4>2. DOMAIN profiles' = 1 .. Len(profiles)
            /\ \A i \in DOMAIN profiles : /\ profiles'[i] \in ProfileRow
                                          /\ profiles'[i].user = profiles[i].user
                                          /\ profiles'[i].screened = profiles[i].screened
                                          /\ profiles'[i].pep = profiles[i].pep
        BY <2>5, <3>1, <4>1
      <4>3. profiles' = [i \in 1 .. Len(profiles) |-> profiles'[i]]
        BY <2>5, <3>1
      <4>4. profiles' \in Seq(ProfileRow) /\ Len(profiles') = Len(profiles)
        BY <2>5, <4>2, <4>3
      <4> QED BY <2>5, <4>2, <4>4, ProfilesChange
    <3>2. CASE profiles' = Append(profiles, NewProfile(u))
      <4>1. PICK row : row = NewProfile(u)
        OBVIOUS
      <4>2. row \in ProfileRow /\ ~row.screened /\ ~row.pep
        BY <2>4, <4>1 DEF NewProfile, ProfileRow
      <4>3. /\ profiles' \in Seq(ProfileRow) /\ Len(profiles') = Len(profiles) + 1
            /\ DOMAIN profiles' = DOMAIN profiles \cup {Len(profiles) + 1}
            /\ profiles'[Len(profiles) + 1] = row
            /\ \A i \in DOMAIN profiles : profiles'[i] = profiles[i]
        BY <2>5, <3>2, <4>1, <4>2
      <4>4. Len(profiles) <= Len(profiles')
        BY <2>5, <4>3
      <4> QED BY <4>2, <4>3, <4>4, ProfilesChange
    <3> QED BY <1>2, <2>1, <3>1, <3>2 DEF WriteProfile
  <2>7. /\ pc' = [pc EXCEPT ![c] = "idle"] /\ req' = [req EXCEPT ![c] = NoRequest]
        /\ failures' \in 0 .. MaxFailures
    BY <1>2 DEF WriteProfile, DeskInv, CallsFit
  <2> QED BY <2>6, <2>7, IdleIsReady, KycStep DEF Labels
<1> QED BY <1>1, <1>2

\* An administrator approves a row by its id.
LEMMA VerifyFits ==
    ASSUME DeskInv, UNCHANGED <<legalVars, complaints, screenings, kyc_documents>>,
           NEW i \in DOMAIN profiles, NEW t \in Tiers, VerifyProfile(i, t)
    PROVE  DeskInv'
<1>1. /\ profiles \in Seq(ProfileRow) /\ Len(profiles) \in Nat
      /\ DOMAIN profiles = 1 .. Len(profiles) /\ profiles[i] \in ProfileRow
  BY RowFacts
<1>2. PICK row : row = [profiles[i] EXCEPT !.status = "approved", !.tier = t]
  OBVIOUS
<1>3. /\ row \in ProfileRow /\ row.user = profiles[i].user
      /\ row.screened = profiles[i].screened /\ row.pep = profiles[i].pep
  BY <1>1, <1>2 DEF ProfileRow
<1>4. profiles' = [profiles EXCEPT ![i] = row]
  BY <1>1, <1>2 DEF VerifyProfile, ProfileRow
<1>5. /\ profiles' \in Seq(ProfileRow) /\ Len(profiles') = Len(profiles)
      /\ DOMAIN profiles' = DOMAIN profiles /\ profiles'[i] = row
      /\ \A k \in DOMAIN profiles \ {i} : profiles'[k] = profiles[k]
  BY <1>1, <1>3, <1>4
<1>6. KycFits' /\ KycGrows
  BY <1>1, <1>3, <1>5, ProfilesChange
<1>7. LegalFits' /\ LegalGrows /\ ComplaintsFit'
  BY Unchanged
<1>8. CallsFit'
  BY <1>6, <1>7, NoDeskCallMoves DEF VerifyProfile
<1> QED BY <1>6, <1>7, <1>8 DEF DeskInv

\* A screening begins, asks list after list, marks the rows of its user, and marks them once
\* more as a politically exposed person or none.
LEMMA ScreensFit ==
    ASSUME DeskInv, NEW c \in Calls,
           \/ \E u \in Users : BeginScreen(c, u)
           \/ ScreenList(c) \/ MarkScreened(c) \/ ScreenPEP(c)
    PROVE  DeskInv'
<1>1. UNCHANGED <<legalVars, complaints, failures, kyc_documents>> /\ failures' \in 0 .. MaxFailures
  BY DEF BeginScreen, ScreenList, MarkScreened, ScreenPEP, NotKyc, DeskInv, CallsFit
<1>2. Len(Lists) = 5 /\ DOMAIN Lists = 1 .. 5
  BY DEF Lists
<1>3. /\ profiles \in Seq(ProfileRow) /\ Len(profiles) \in Nat
      /\ DOMAIN profiles = 1 .. Len(profiles)
      /\ \A i \in DOMAIN profiles : profiles[i] \in ProfileRow
  BY RowFacts
<1>4. ASSUME NEW u \in Users, BeginScreen(c, u) PROVE DeskInv'
  <2>1. PICK r : r = [op |-> "screen", user |-> u, next |-> 1]
    OBVIOUS
  <2>2. /\ pc' = [pc EXCEPT ![c] = "screen"] /\ req' = [req EXCEPT ![c] = r]
        /\ UNCHANGED <<profiles, screenings>>
    BY <1>4, <2>1 DEF BeginScreen
  <2>3. r.user \in Users /\ r.next = 1 /\ "user" \in DOMAIN r
    BY <2>1
  <2>4. KycReady("screen", r)'
    BY <1>2, <2>3 DEF KycReady
  <2>5. KycFits' /\ KycGrows
    BY <1>1, <2>2, Unchanged
  <2> QED BY <1>1, <2>2, <2>4, <2>5, KycStep DEF Labels
<1>5. CASE ScreenList(c)
  <2>1. PICK u, n, q : q = req[c] /\ u = q.user /\ n = q.next
    OBVIOUS
  <2>2. KycReady("screen", q) /\ n <= Len(Lists)
    BY <1>5, <2>1 DEF ScreenList, DeskInv, CallsFit
  <2>3. /\ u \in Users /\ n \in 1 .. 5 /\ "user" \in DOMAIN q
        /\ \A k \in 1 .. n - 1 : <<u, Lists[k]>> \in screenings
    BY <1>2, <2>1, <2>2 DEF KycReady
  <2>4. PICK r : r = With(q, [next |-> n + 1])
    OBVIOUS
  <2>5. /\ pc' = [pc EXCEPT ![c] = "screen"] /\ req' = [req EXCEPT ![c] = r]
        /\ screenings' = screenings \cup {<<u, Lists[n]>>} /\ UNCHANGED profiles
    BY <1>5, <2>1, <2>4 DEF ScreenList, DeskInv, CallsFit
  <2>6. r.next = n + 1 /\ r.user = u /\ "user" \in DOMAIN r
    BY <2>1, <2>3, <2>4 DEF With
  <2>7. \A k \in 1 .. n : <<u, Lists[k]>> \in screenings'
    <3>1. \A k \in 1 .. n : k \in 1 .. n - 1 \/ k = n
      BY <2>3
    <3> QED BY <2>3, <2>5, <3>1
  <2>8. KycReady("screen", r)'
    <3>1. r.next \in 1 .. Len(Lists) + 1 /\ r.next - 1 = n
      BY <1>2, <2>3, <2>6
    <3> QED BY <2>3, <2>6, <2>7, <3>1 DEF KycReady
  <2>9. KycGrows
    BY <2>5 DEF KycGrows
  <2>10. KycFits'
    <3>1. screenings' \subseteq Users \X {Lists[k] : k \in DOMAIN Lists}
      BY <1>2, <2>3, <2>5 DEF DeskInv, KycFits
    <3> QED BY <1>1, <2>5, <3>1 DEF DeskInv, KycFits, KycTypeOK, Covered
  <2> QED BY <1>1, <2>5, <2>8, <2>9, <2>10, KycStep DEF Labels
<1>6. ASSUME NEW u, Covered(u), UNCHANGED screenings,
             \/ profiles' = [i \in DOMAIN profiles |->
                               [profiles[i] EXCEPT !.screened = @ \/ i \in ProfilesOf(u)]]
             \/ profiles' = [i \in DOMAIN profiles |->
                               [profiles[i] EXCEPT !.pep = @ \/ i \in ProfilesOf(u)]]
      PROVE  KycFits' /\ KycGrows
  <2>1. PICK mark : mark = ProfilesOf(u)
    OBVIOUS
  <2>2. \A i \in mark : profiles[i].user = u
    BY <2>1 DEF ProfilesOf
  <2>3. \A i \in DOMAIN profiles :
           \/ profiles'[i] = [profiles[i] EXCEPT !.screened = @ \/ i \in mark]
           \/ profiles'[i] = [profiles[i] EXCEPT !.pep = @ \/ i \in mark]
    BY <1>6, <2>1
  <2>4. ASSUME NEW i \in DOMAIN profiles
        PROVE  /\ profiles'[i] \in ProfileRow /\ profiles'[i].user = profiles[i].user
               /\ \/ i \in mark
                  \/ /\ profiles'[i].screened = profiles[i].screened
                     /\ profiles'[i].pep = profiles[i].pep
    <3>1. PICK row \in ProfileRow : row = profiles[i]
      BY <1>3
    <3>2. PICK b \in BOOLEAN : b <=> i \in mark
      <4>1. CASE i \in mark
        BY <4>1
      <4>2. CASE i \notin mark
        BY <4>2
      <4> QED BY <4>1, <4>2
    <3>3. row.screened \in BOOLEAN /\ row.pep \in BOOLEAN
      BY DEF ProfileRow
    <3>4. CASE profiles'[i] = [profiles[i] EXCEPT !.screened = @ \/ i \in mark]
      <4>1. PICK s \in BOOLEAN : s = (row.screened \/ b)
        BY <3>3
      <4>2. profiles'[i] = [row EXCEPT !.screened = s]
        BY <3>1, <3>2, <3>4, <4>1
      <4>3. ~b => s = row.screened
        BY <3>3, <4>1
      <4> QED BY <3>1, <3>2, <4>2, <4>3 DEF ProfileRow
    <3>5. CASE profiles'[i] = [profiles[i] EXCEPT !.pep = @ \/ i \in mark]
      <4>1. PICK s \in BOOLEAN : s = (row.pep \/ b)
        BY <3>3
      <4>2. profiles'[i] = [row EXCEPT !.pep = s]
        BY <3>1, <3>2, <3>5, <4>1
      <4>3. ~b => s = row.pep
        BY <3>3, <4>1
      <4> QED BY <3>1, <3>2, <4>2, <4>3 DEF ProfileRow
    <3> QED BY <2>3, <3>4, <3>5
  <2>5. DOMAIN profiles' = 1 .. Len(profiles) /\ profiles' = [i \in 1 .. Len(profiles) |-> profiles'[i]]
    BY <1>3, <1>6
  <2>6. profiles' \in Seq(ProfileRow) /\ Len(profiles') = Len(profiles)
    BY <1>3, <2>4, <2>5
  <2>7. Len(profiles) <= Len(profiles')
    BY <1>3, <2>6
  <2>8. \A i \in DOMAIN profiles' :
           \/ Covered(profiles'[i].user)
           \/ /\ i \in DOMAIN profiles /\ profiles'[i].user = profiles[i].user
              /\ profiles'[i].screened = profiles[i].screened
              /\ profiles'[i].pep = profiles[i].pep
    BY <1>3, <1>6, <2>2, <2>4, <2>5
  <2> QED BY <1>1, <1>6, <2>6, <2>7, <2>8, ProfilesChange
<1>7. CASE MarkScreened(c)
  <2>1. PICK q, u : q = req[c] /\ u = q.user
    OBVIOUS
  <2>2. KycReady("screen", q) /\ q.next > Len(Lists)
    BY <1>7, <2>1 DEF MarkScreened, DeskInv, CallsFit
  <2>3. q.next = 6 /\ u \in Users /\ \A k \in 1 .. q.next - 1 : <<u, Lists[k]>> \in screenings
    BY <1>2, <2>1, <2>2 DEF KycReady
  <2>4. Covered(u)
    BY <1>2, <2>3 DEF Covered
  <2>5. /\ pc' = [pc EXCEPT ![c] = "pep"] /\ req' = req /\ UNCHANGED screenings
        /\ profiles' = [i \in DOMAIN profiles |->
                           [profiles[i] EXCEPT !.screened = @ \/ i \in ProfilesOf(u)]]
    BY <1>7, <2>1 DEF MarkScreened
  <2>6. KycFits' /\ KycGrows
    BY <1>6, <2>4, <2>5
  <2>7. Covered(u)'
    BY <2>4, <2>5 DEF Covered
  <2>8. KycReady("pep", q)'
    BY <2>1, <2>3, <2>7 DEF KycReady
  <2> QED BY <1>1, <2>1, <2>5, <2>6, <2>8, KycStep DEF Labels
<1>8. CASE ScreenPEP(c)
  <2>1. PICK q, u : q = req[c] /\ u = q.user
    OBVIOUS
  <2>2. KycReady("pep", q)
    BY <1>8, <2>1 DEF ScreenPEP, DeskInv, CallsFit
  <2>3. Covered(u)
    BY <2>1, <2>2 DEF KycReady
  <2>4. /\ pc' = [pc EXCEPT ![c] = "idle"] /\ req' = [req EXCEPT ![c] = NoRequest]
        /\ UNCHANGED screenings
        /\ profiles' = [i \in DOMAIN profiles |->
                           [profiles[i] EXCEPT !.pep = @ \/ i \in ProfilesOf(u)]]
    BY <1>8, <2>1 DEF ScreenPEP
  <2>5. KycFits' /\ KycGrows
    BY <1>6, <2>3, <2>4
  <2> QED BY <1>1, <2>4, <2>5, IdleIsReady, KycStep DEF Labels
<1> QED BY <1>4, <1>5, <1>7, <1>8

\* An upload begins with a row of the table, and refers to it.
LEMMA UploadsFit ==
    ASSUME DeskInv, NEW c \in Calls,
           StoreUpload(c) \/ \E i \in DOMAIN profiles : BeginUpload(c, i)
    PROVE  DeskInv'
<1>1. UNCHANGED <<legalVars, complaints, profiles, screenings>> /\ failures' \in 0 .. MaxFailures
  BY DEF BeginUpload, StoreUpload, NotKyc, DeskInv, CallsFit
<1>2. ASSUME NEW i \in DOMAIN profiles, BeginUpload(c, i) PROVE DeskInv'
  <2>1. PICK r : r = [op |-> "upload", profile |-> i]
    OBVIOUS
  <2>2. /\ pc' = [pc EXCEPT ![c] = "upload"] /\ req' = [req EXCEPT ![c] = r]
        /\ UNCHANGED kyc_documents
    BY <1>2, <2>1 DEF BeginUpload
  <2>3. r.profile \in DOMAIN profiles'
    BY <1>1, <2>1
  <2>4. KycReady("upload", r)'
    BY <2>3 DEF KycReady
  <2>5. KycFits' /\ KycGrows
    BY <1>1, <2>2, Unchanged
  <2> QED BY <1>1, <2>2, <2>4, <2>5, KycStep DEF Labels
<1>3. CASE StoreUpload(c)
  <2>1. PICK i : i = req[c].profile
    OBVIOUS
  <2>2. KycReady("upload", req[c])
    BY <1>3 DEF StoreUpload, DeskInv, CallsFit
  <2>3. i \in DOMAIN profiles
    BY <2>1, <2>2 DEF KycReady
  <2>4. /\ pc' = [pc EXCEPT ![c] = "idle"] /\ req' = [req EXCEPT ![c] = NoRequest]
        /\ kyc_documents' = Append(kyc_documents, i)
    BY <1>3, <2>1 DEF StoreUpload
  <2>5. PICK S : kyc_documents \in Seq(S)
    BY DEF DeskInv, KycFits
  <2>6. /\ kyc_documents' \in Seq(S \cup {i})
        /\ \A n \in DOMAIN kyc_documents' :
              kyc_documents'[n] = i \/ (n \in DOMAIN kyc_documents /\ kyc_documents'[n] = kyc_documents[n])
    BY <2>4, <2>5
  <2>7. \A n \in DOMAIN kyc_documents' : kyc_documents'[n] \in DOMAIN profiles'
    BY <1>1, <2>3, <2>6 DEF DeskInv, KycFits
  <2>8. \E T : kyc_documents' \in Seq(T)
    BY <2>6
  <2>9. KycFits' /\ KycGrows
    BY <1>1, <2>7, <2>8 DEF DeskInv, KycFits, KycTypeOK, KycGrows, Covered
  <2> QED BY <1>1, <2>4, <2>9, IdleIsReady, KycStep DEF Labels
<1> QED BY <1>2, <1>3

-----------------------------------------------------------------------------
(***************************************************************************)
(* Documents and consents.                                                 *)
(***************************************************************************)
Document == [type : Types, scope : Scopes, current : BOOLEAN,
             requires_reacceptance : BOOLEAN, seen : Nat]

\* A step of a call on documents, consents and answers only: the call goes on ready.
LEMMA LegalStep ==
    ASSUME DeskInv, NEW c \in Calls, NEW l \in Labels, NEW r,
           pc' = [pc EXCEPT ![c] = l], req' = [req EXCEPT ![c] = r],
           failures' \in 0 .. MaxFailures,
           l \in {"idle", "document", "required", "consented"}, LegalReady(l, r)',
           UNCHANGED <<profiles, screenings, kyc_documents, complaints>>, LegalGrows, LegalFits'
    PROVE  DeskInv'
<1>1. KycReady(l, r)'
  BY DEF KycReady
<1>2. KycFits' /\ KycGrows /\ ComplaintsFit'
  BY Unchanged
<1>3. CallsFit'
  BY <1>1, <1>2, DeskCallMoves
<1> QED BY <1>2, <1>3 DEF DeskInv

\* Elements of the table.
LEMMA DocumentFacts ==
    ASSUME DeskInv
    PROVE  /\ documents \in Seq(Document) /\ Len(documents) \in Nat
           /\ DOMAIN documents = 1 .. Len(documents)
           /\ \A d \in DOMAIN documents : documents[d] \in Document
<1>1. documents \in Seq(Document)
  BY DEF DeskInv, LegalFits, LegalTypeOK, Document
<1>2. \A S : \A s \in Seq(S) : \A k \in DOMAIN s : s[k] \in S
  OBVIOUS
<1> QED BY <1>1, <1>2

\* A creation begins with the versions it will unset.
LEMMA DraftsFit ==
    ASSUME DeskInv, UNCHANGED <<profiles, complaints, screenings, kyc_documents>>,
           NEW c \in Calls, NEW t \in Types, NEW s \in Scopes, NEW reaccept \in BOOLEAN,
           BeginCreate(c, t, s, reaccept)
    PROVE  DeskInv'
<1>1. PICK r : r = [op |-> "create", type |-> t, scope |-> s, reaccept |-> reaccept,
                    seen |-> Len(documents),
                    unset |-> IF reaccept THEN Current \cap Versions(t, s) ELSE {}]
  OBVIOUS
<1>2. /\ pc' = [pc EXCEPT ![c] = "document"] /\ req' = [req EXCEPT ![c] = r]
      /\ UNCHANGED legalVars /\ failures' = failures
  BY <1>1 DEF BeginCreate
<1>3. Drafted(r)
  <2>1. /\ r.type = t /\ r.scope = s /\ r.reaccept = reaccept /\ r.seen = Len(documents)
        /\ r.unset = IF reaccept THEN Current \cap Versions(t, s) ELSE {}
    BY <1>1
  <2>2. r.seen \in 0 .. Len(documents)
    BY <2>1, DocumentFacts
  <2> QED BY <2>1, <2>2 DEF Drafted
<1>4. LegalReady("document", r)
  BY <1>3 DEF LegalReady
<1>5. LegalFits' /\ LegalGrows
  BY <1>2, Unchanged
<1>6. LegalReady("document", r)'
  BY <1>4, <1>5, LegalReadyStays
<1>7. failures' \in 0 .. MaxFailures
  BY <1>2 DEF DeskInv, CallsFit
<1> QED BY <1>2, <1>5, <1>6, <1>7, LegalStep DEF Labels

\* The new version comes into force with the COMMIT that puts the others out of it.
LEMMA CreatesFit ==
    ASSUME DeskInv, UNCHANGED <<profiles, complaints, screenings, kyc_documents>>,
           NEW c \in Calls, CreateDocument(c)
    PROVE  DeskInv'
<1>1. PICK q : q = req[c]
  OBVIOUS
<1>2. LegalReady("document", q)
  BY <1>1 DEF CreateDocument, DeskInv, CallsFit
<1>3. Drafted(q)
  BY <1>2 DEF LegalReady
<1>4. PICK n \in Nat : n = Len(documents)
  BY DocumentFacts
<1>5. /\ documents \in Seq(Document) /\ DOMAIN documents = 1 .. n
      /\ \A d \in 1 .. n : documents[d] \in Document
  BY <1>4, DocumentFacts
<1>6. PICK mid : mid = Unset(q.unset)
  OBVIOUS
<1>7. /\ DOMAIN mid = 1 .. n
      /\ \A d \in 1 .. n : /\ mid[d] \in Document
                           /\ mid[d].type = documents[d].type /\ mid[d].scope = documents[d].scope
                           /\ mid[d].seen = documents[d].seen
                           /\ mid[d].requires_reacceptance = documents[d].requires_reacceptance
                           /\ mid[d].current => documents[d].current /\ d \notin q.unset
                           /\ d \notin q.unset => mid[d] = documents[d]
  BY <1>5, <1>6 DEF Unset, Document
<1>8. mid \in Seq(Document) /\ Len(mid) = n
  <2>1. mid = [d \in 1 .. n |-> mid[d]]
    BY <1>5, <1>6 DEF Unset
  <2> QED BY <1>4, <1>7, <2>1
<1>9. PICK new : new = NewDocument(c)
  OBVIOUS
<1>10. /\ new \in Document /\ new.type = q.type /\ new.scope = q.scope /\ new.current
       /\ new.requires_reacceptance = q.reaccept /\ new.seen = q.seen
  <2>1. new = [type |-> q.type, scope |-> q.scope, current |-> TRUE,
               requires_reacceptance |-> q.reaccept, seen |-> q.seen]
    BY <1>1, <1>9 DEF NewDocument
  <2>2. q.type \in Types /\ q.scope \in Scopes /\ q.reaccept \in BOOLEAN /\ q.seen \in Nat
    BY <1>3, <1>4 DEF Drafted
  <2> QED BY <2>1, <2>2 DEF Document
<1>11. /\ documents' \in Seq(Document) /\ Len(documents') = n + 1 /\ DOMAIN documents' = 1 .. n + 1
       /\ documents'[n + 1] = new /\ \A d \in 1 .. n : documents'[d] = mid[d]
  <2>1. documents' = Append(mid, new)
    BY <1>1, <1>6, <1>9 DEF CreateDocument
  <2> QED BY <1>8, <1>10, <2>1
<1>12. UNCHANGED <<consents, answers, accepted>>
       /\ pc' = [pc EXCEPT ![c] = "idle"] /\ req' = [req EXCEPT ![c] = NoRequest]
       /\ failures' \in 0 .. MaxFailures
  BY DEF CreateDocument, DeskInv, CallsFit
<1>13. \A d \in 1 .. n : d \in 1 .. n + 1
  BY <1>4
<1>14. LegalGrows
  <2>1. ASSUME NEW d \in Current
        PROVE  \E e \in Current' : /\ documents'[e].type = documents[d].type
                                   /\ documents'[e].scope = documents[d].scope
    <3>1. d \in 1 .. n /\ documents[d].current
      BY <1>5 DEF Current
    <3>2. CASE d \in q.unset
      <4>1. documents[d].type = q.type /\ documents[d].scope = q.scope
        BY <1>3, <3>2 DEF Drafted, Versions
      <4>2. n + 1 \in Current'
        BY <1>10, <1>11 DEF Current
      <4> QED BY <1>10, <1>11, <4>1, <4>2
    <3>3. CASE d \notin q.unset
      <4>1. documents'[d] = documents[d]
        BY <1>7, <1>11, <3>1, <3>3
      <4>2. d \in Current'
        BY <1>11, <1>13, <3>1, <4>1 DEF Current
      <4> QED BY <4>1, <4>2
    <3> QED BY <3>2, <3>3
  <2>2. \A d \in DOMAIN documents : /\ documents'[d].type = documents[d].type
                                    /\ documents'[d].scope = documents[d].scope
                                    /\ documents'[d].current => documents[d].current
    BY <1>5, <1>7, <1>11
  <2>3. n <= n + 1 /\ n + 1 \in Nat
    BY <1>4
  <2> QED BY <1>4, <1>5, <1>11, <2>1, <2>2, <2>3 DEF LegalGrows
<1>15. LegalTypeOK'
  <2>1. Users \X DOMAIN documents \subseteq Users \X DOMAIN documents'
    BY <1>5, <1>11, <1>13
  <2>2. documents' \in Seq([type : Types, scope : Scopes, current : BOOLEAN,
                            requires_reacceptance : BOOLEAN, seen : Nat])
    BY <1>11 DEF Document
  <2>3. /\ DOMAIN consents \subseteq Users \X DOMAIN documents
        /\ accepted \subseteq DOMAIN consents
        /\ answers \in [Users -> [types : SUBSET Types, cleared : BOOLEAN]]
    BY DEF DeskInv, LegalFits, LegalTypeOK
  <2> QED BY <1>12, <2>1, <2>2, <2>3 DEF LegalTypeOK
<1>16. OneCurrentUnlessKeptOrRaced'
  <2> SUFFICES ASSUME NEW d \in Current', NEW e \in Current', d < e,
                      documents'[d].type = documents'[e].type,
                      documents'[d].scope = documents'[e].scope,
                      documents'[e].requires_reacceptance
               PROVE  documents'[e].seen < d
    BY DEF OneCurrentUnlessKeptOrRaced
  <2>1. d \in 1 .. n + 1 /\ e \in 1 .. n + 1 /\ documents'[d].current /\ documents'[e].current
    BY <1>11 DEF Current
  <2>2. d \in 1 .. n
    BY <1>4, <2>1
  <2>3. /\ documents[d].type = documents'[d].type /\ documents[d].scope = documents'[d].scope
        /\ d \in Current /\ d \notin q.unset
    BY <1>5, <1>7, <1>11, <2>1, <2>2 DEF Current
  <2>4. CASE e \in 1 .. n
    <3>1. /\ documents[e].type = documents'[e].type /\ documents[e].scope = documents'[e].scope
          /\ documents[e].requires_reacceptance = documents'[e].requires_reacceptance
          /\ documents[e].seen = documents'[e].seen /\ e \in Current
      <4>1. documents'[e] = mid[e]
        BY <1>11, <2>4
      <4>2. /\ documents[e].type = mid[e].type /\ documents[e].scope = mid[e].scope
            /\ documents[e].requires_reacceptance = mid[e].requires_reacceptance
            /\ documents[e].seen = mid[e].seen /\ (mid[e].current => documents[e].current)
        BY <1>7, <2>4
      <4>3. e \in Current
        BY <1>5, <2>1, <2>4, <4>1, <4>2 DEF Current
      <4> QED BY <4>1, <4>2, <4>3
    <3> QED BY <2>3, <3>1 DEF DeskInv, LegalFits, OneCurrentUnlessKeptOrRaced
  <2>5. CASE e = n + 1
    <3>1. q.reaccept /\ q.type = documents[d].type /\ q.scope = documents[d].scope
      BY <1>10, <1>11, <2>3, <2>5
    <3>2. d \in Current \cap Versions(q.type, q.scope)
      BY <1>5, <2>2, <2>3, <3>1 DEF Versions
    <3>3. ~(d <= q.seen)
      BY <1>3, <2>3, <3>1, <3>2 DEF Drafted
    <3>4. q.seen \in Nat /\ d \in Nat /\ documents'[e].seen = q.seen
      BY <1>3, <1>4, <1>10, <1>11, <2>2, <2>5 DEF Drafted
    <3> QED BY <3>3, <3>4
  <2> QED BY <2>1, <2>4, <2>5
<1>17. ClearedMeansAccepted'
  <2>1. \A d \in DOMAIN documents : d \in DOMAIN documents' /\ documents'[d].type = documents[d].type
    BY <1>5, <1>7, <1>11, <1>13
  <2>2. ClearedMeansAccepted
    BY DEF DeskInv, LegalFits
  <2>3. answers' = answers /\ accepted' = accepted
    BY <1>12
  <2> SUFFICES ASSUME NEW u \in Users, answers[u].cleared, NEW t \in answers[u].types
               PROVE  \E d \in DOMAIN documents' : documents'[d].type = t /\ <<u, d>> \in accepted
    BY <2>3 DEF ClearedMeansAccepted
  <2>4. PICK d \in DOMAIN documents : documents[d].type = t /\ <<u, d>> \in accepted
    BY <2>2 DEF ClearedMeansAccepted
  <2> QED BY <2>1, <2>4
<1>18. LegalFits'
  BY <1>12, <1>15, <1>16, <1>17 DEF DeskInv, LegalFits
<1> QED BY <1>12, <1>14, <1>18, IdleIsReady, LegalStep DEF Labels

\* A consent is of any version there is, and leaves a trace in the history.
LEMMA ConsentsFit ==
    ASSUME DeskInv, UNCHANGED <<profiles, complaints, screenings, kyc_documents>>,
           NEW u \in Users, NEW d \in DOMAIN documents, NEW yes \in BOOLEAN, RecordConsent(u, d, yes)
    PROVE  DeskInv'
<1>1. PICK pair : pair = <<u, d>>
  OBVIOUS
<1>2. /\ consents' = With(consents, [p \in {pair} |-> yes])
      /\ accepted' = IF yes THEN accepted \cup {pair} ELSE accepted
      /\ UNCHANGED <<documents, answers, pc, req, failures>>
  BY <1>1 DEF RecordConsent
<1>3. /\ DOMAIN consents' = DOMAIN consents \cup {pair} /\ consents'[pair] = yes
      /\ \A p \in DOMAIN consents \ {pair} : consents'[p] = consents[p]
  BY <1>2 DEF With
<1>4. pair \in Users \X DOMAIN documents
  BY <1>1
<1>5. LegalTypeOK'
  BY <1>2, <1>3, <1>4 DEF DeskInv, LegalFits, LegalTypeOK
<1>6. \A p \in DOMAIN consents' : consents'[p] => p \in accepted'
  BY <1>2, <1>3 DEF DeskInv, LegalFits
<1>7. ClearedMeansAccepted'
  <2>1. ClearedMeansAccepted /\ accepted \subseteq accepted'
    BY <1>2 DEF DeskInv, LegalFits
  <2> QED BY <1>2, <2>1 DEF ClearedMeansAccepted
<1>8. OneCurrentUnlessKeptOrRaced'
  BY <1>2 DEF DeskInv, LegalFits, OneCurrentUnlessKeptOrRaced, Current
<1>9. LegalGrows
  BY <1>2, DocumentFacts DEF LegalGrows, Current
<1>10. KycFits' /\ KycGrows /\ ComplaintsFit'
  BY Unchanged
<1>11. CallsFit'
  BY <1>2, <1>9, <1>10, NoDeskCallMoves
<1> QED BY <1>5, <1>6, <1>7, <1>8, <1>10, <1>11 DEF DeskInv, LegalFits

\* A question is asked for the types shown in the jurisdiction, lists what is in force, and is
\* answered by the consents found then.
LEMMA AnswersFit ==
    ASSUME DeskInv, UNCHANGED <<profiles, complaints, screenings, kyc_documents>>,
           NEW c \in Calls,
           \/ \E u \in Users, s \in Scopes : BeginRequired(c, u, s)
           \/ ListRequired(c) \/ AnswerRequired(c)
    PROVE  DeskInv'
<1>1. failures' \in 0 .. MaxFailures
  BY DEF BeginRequired, ListRequired, AnswerRequired, DeskInv, CallsFit
<1>2. ASSUME NEW u \in Users, NEW s \in Scopes, BeginRequired(c, u, s) PROVE DeskInv'
  <2>1. PICK types : types = {t \in Types : Shown(t, s) # {}}
    OBVIOUS
  <2>2. PICK r : r = [op |-> "required", user |-> u, scope |-> s, types |-> types]
    OBVIOUS
  <2>3. /\ pc' = [pc EXCEPT ![c] = "required"] /\ req' = [req EXCEPT ![c] = r]
        /\ UNCHANGED legalVars
    BY <1>2, <2>1, <2>2 DEF BeginRequired
  <2>4. ASSUME NEW t \in types PROVE \E d \in InForce(s) : documents[d].type = t
    <3>1. PICK d : d \in Shown(t, s)
      BY <2>1, <2>4
    <3>2. d \in Current /\ (d \in Versions(t, s) \/ d \in Versions(t, Global))
      BY <3>1 DEF Shown
    <3> QED BY <3>2 DEF Versions, InForce
  <2>5. LegalReady("required", r)
    <3>1. /\ r.user = u /\ r.scope = s /\ r.types = types /\ {"user", "types"} \subseteq DOMAIN r
          /\ types \subseteq Types
      BY <2>1, <2>2
    <3> QED BY <2>4, <3>1 DEF LegalReady
  <2>6. LegalFits' /\ LegalGrows
    BY <2>3, Unchanged
  <2>7. LegalReady("required", r)'
    BY <2>5, <2>6, LegalReadyStays
  <2> QED BY <1>1, <2>3, <2>6, <2>7, LegalStep DEF Labels
<1>3. CASE ListRequired(c)
  <2>1. PICK q : q = req[c]
    OBVIOUS
  <2>2. LegalReady("required", q)
    BY <1>3, <2>1 DEF ListRequired, DeskInv, CallsFit
  <2>3. PICK listed : listed = InForce(q.scope)
    OBVIOUS
  <2>4. PICK r : r = With(q, [listed |-> listed])
    OBVIOUS
  <2>5. /\ pc' = [pc EXCEPT ![c] = "consented"] /\ req' = [req EXCEPT ![c] = r]
        /\ UNCHANGED legalVars
    BY <1>3, <2>1, <2>3, <2>4 DEF ListRequired, DeskInv, CallsFit
  <2>6. {"user", "types"} \subseteq DOMAIN q
    BY <2>2 DEF LegalReady
  <2>7. r.user = q.user /\ r.types = q.types /\ r.listed = listed
    BY <2>4, <2>6 DEF With
  <2>8. LegalReady("consented", r)
    BY <2>2, <2>3, <2>7 DEF LegalReady, InForce, Current
  <2>9. LegalFits' /\ LegalGrows
    BY <2>5, Unchanged
  <2>10. LegalReady("consented", r)'
    BY <2>8, <2>9, LegalReadyStays
  <2> QED BY <1>1, <2>5, <2>9, <2>10, LegalStep DEF Labels
<1>4. CASE AnswerRequired(c)
  <2>1. PICK q, u : q = req[c] /\ u = q.user
    OBVIOUS
  <2>2. LegalReady("consented", q)
    BY <1>4, <2>1 DEF AnswerRequired, DeskInv, CallsFit
  <2>3. u \in Users /\ q.types \subseteq Types /\ q.listed \subseteq DOMAIN documents
        /\ \A t \in q.types : \E d \in q.listed : documents[d].type = t
    BY <2>1, <2>2 DEF LegalReady
  <2>4. PICK cleared \in BOOLEAN : cleared <=> \A d \in q.listed : HasConsented(u, d)
    <3>1. CASE \A d \in q.listed : HasConsented(u, d)
      BY <3>1
    <3>2. CASE ~ \A d \in q.listed : HasConsented(u, d)
      BY <3>2
    <3> QED BY <3>1, <3>2
  <2>5. PICK a : a = [types |-> q.types, cleared |-> cleared]
    OBVIOUS
  <2>6. /\ pc' = [pc EXCEPT ![c] = "idle"] /\ req' = [req EXCEPT ![c] = NoRequest]
        /\ UNCHANGED <<documents, consents, accepted>>
    BY <1>4 DEF AnswerRequired
  <2>7. answers' = [answers EXCEPT ![u] = [types |-> q.types,
                                           cleared |-> \A d \in q.listed : HasConsented(u, d)]]
    BY <1>4, <2>1 DEF AnswerRequired
  <2>8. answers' = [answers EXCEPT ![u] = a]
    BY <2>4, <2>5, <2>7
  <2>9. a.types = q.types /\ a.cleared = cleared /\ a \in [types : SUBSET Types, cleared : BOOLEAN]
    BY <2>3, <2>5
  <2>10. LegalTypeOK'
    BY <2>3, <2>6, <2>8, <2>9 DEF DeskInv, LegalFits, LegalTypeOK
  <2>11. answers'[u] = a /\ \A v \in Users \ {u} : answers'[v] = answers[v]
    BY <2>3, <2>8 DEF DeskInv, LegalFits, LegalTypeOK
  <2>12. ASSUME cleared, NEW t \in q.types
         PROVE  \E d \in DOMAIN documents : documents[d].type = t /\ <<u, d>> \in accepted
    <3>1. PICK d \in q.listed : documents[d].type = t
      BY <2>3
    <3>2. HasConsented(u, d)
      BY <2>4, <2>12
    <3>3. <<u, d>> \in accepted
      BY <3>2 DEF HasConsented, DeskInv, LegalFits
    <3> QED BY <2>3, <3>1, <3>3
  <2>13. ClearedMeansAccepted'
    BY <2>6, <2>9, <2>11, <2>12 DEF DeskInv, LegalFits, ClearedMeansAccepted
  <2>14. LegalGrows /\ OneCurrentUnlessKeptOrRaced'
    BY <2>6, DocumentFacts DEF LegalGrows, Current, DeskInv, LegalFits, OneCurrentUnlessKeptOrRaced
  <2>15. LegalFits'
    BY <2>6, <2>10, <2>13, <2>14 DEF DeskInv, LegalFits
  <2> QED BY <1>1, <2>6, <2>14, <2>15, IdleIsReady, LegalStep DEF Labels
<1> QED BY <1>2, <1>3, <1>4

-----------------------------------------------------------------------------
(***************************************************************************)
(* Complaints.                                                             *)
(***************************************************************************)
Complaint == [user : Users, priority : {"low", "normal", "high", "urgent"},
              submitted : FirstDays, due : Nat,
              status : {"submitted", "acknowledged", "under_review", "resolved", "escalated"},
              assigned : BOOLEAN, notes : BOOLEAN, regulator : BOOLEAN]

\* Elements of the table.
LEMMA ComplaintFacts ==
    ASSUME DeskInv
    PROVE  /\ complaints \in Seq(Complaint) /\ Len(complaints) \in Nat
           /\ DOMAIN complaints = 1 .. Len(complaints)
           /\ \A i \in DOMAIN complaints :
                 /\ complaints[i] \in Complaint
                 /\ complaints[i].due = DueDate(complaints[i].submitted, ResponseDays)
<1>1. complaints \in Seq(Complaint)
  BY DEF DeskInv, ComplaintsFit, ComplaintsTypeOK, Complaint
<1>2. \A S : \A s \in Seq(S) : \A k \in DOMAIN s : s[k] \in S
  OBVIOUS
<1> QED BY <1>1, <1>2 DEF DeskInv, ComplaintsFit

\* A step on complaints only.
LEMMA ComplaintsStep ==
    ASSUME DeskInv, ComplaintsFit',
           UNCHANGED <<profiles, legalVars, screenings, kyc_documents, pc, req, failures>>
    PROVE  DeskInv'
<1>1. KycFits' /\ KycGrows /\ LegalFits' /\ LegalGrows
  BY Unchanged
<1>2. CallsFit'
  BY <1>1, NoDeskCallMoves
<1> QED BY <1>1, <1>2 DEF DeskInv

\* A complaint comes in with its due date.
LEMMA ComplainsFit ==
    ASSUME DeskInv, UNCHANGED <<profiles, legalVars, screenings, kyc_documents>>,
           NEW u \in Users, NEW category \in Categories, NEW day \in FirstDays,
           CreateComplaint(u, category, day)
    PROVE  DeskInv'
<1>1. day \in Nat /\ ResponseDays \in Nat \ {0}
  BY DaysAssumption
<1>2. PICK due \in Nat : due = DueDate(day, ResponseDays)
  BY <1>1, DueDateCounts
<1>3. PICK priority \in {"low", "normal", "high", "urgent"} : priority = Priority(category)
  BY DEF Priority, Categories
<1>4. PICK row : row = [user |-> u, priority |-> priority, submitted |-> day, due |-> due,
                        status |-> "submitted", assigned |-> FALSE, notes |-> FALSE,
                        regulator |-> FALSE]
  OBVIOUS
<1>5. row \in Complaint /\ row.submitted = day /\ row.due = due
  BY <1>4 DEF Complaint
<1>6. complaints' = Append(complaints, row) /\ UNCHANGED <<pc, req, failures>>
  BY <1>2, <1>3, <1>4 DEF CreateComplaint
<1>7. /\ complaints' \in Seq(Complaint) /\ Len(complaints') = Len(complaints) + 1
      /\ complaints'[Len(complaints) + 1] = row
      /\ \A i \in DOMAIN complaints' : i = Len(complaints) + 1 \/ i \in DOMAIN complaints
      /\ \A i \in DOMAIN complaints : complaints'[i] = complaints[i]
  BY <1>5, <1>6, ComplaintFacts
<1>8. ASSUME NEW i \in DOMAIN complaints'
      PROVE  complaints'[i].due = DueDate(complaints'[i].submitted, ResponseDays)
  <2>1. CASE i = Len(complaints) + 1
    BY <1>2, <1>5, <1>7, <2>1
  <2>2. CASE i \in DOMAIN complaints
    BY <1>7, <2>2, ComplaintFacts
  <2> QED BY <1>7, <2>1, <2>2
<1>9. ComplaintsFit'
  BY <1>7, <1>8 DEF ComplaintsFit, ComplaintsTypeOK, Complaint
<1> QED BY <1>6, <1>9, ComplaintsStep

\* Columns other than the dates are written.
LEMMA RowsHandled ==
    ASSUME NEW old \in Complaint, NEW facts,
           DOMAIN facts \subseteq {"status", "assigned", "notes", "regulator"},
           "status" \in DOMAIN facts =>
              facts["status"] \in {"acknowledged", "under_review", "resolved", "escalated"},
           \A f \in DOMAIN facts \ {"status"} : facts[f] \in BOOLEAN
    PROVE  /\ With(old, facts) \in Complaint
           /\ With(old, facts).submitted = old.submitted /\ With(old, facts).due = old.due
<1>1. DOMAIN old = {"user", "priority", "submitted", "due", "status", "assigned", "notes", "regulator"}
  BY DEF Complaint
<1>2. PICK row : row = With(old, facts)
  OBVIOUS
<1>3. row = [f \in DOMAIN old |-> IF f \in DOMAIN facts THEN facts[f] ELSE old[f]]
  <2>1. DOMAIN old \cup DOMAIN facts = DOMAIN old
    BY <1>1
  <2> QED BY <1>2, <2>1 DEF With
<1>4. /\ row.user = old.user /\ row.priority = old.priority
      /\ row.submitted = old.submitted /\ row.due = old.due
  BY <1>1, <1>3
<1>5. row.status \in {"submitted", "acknowledged", "under_review", "resolved", "escalated"}
  BY <1>1, <1>3 DEF Complaint
<1>6. row.assigned \in BOOLEAN /\ row.notes \in BOOLEAN /\ row.regulator \in BOOLEAN
  BY <1>1, <1>3 DEF Complaint
<1>7. row \in Complaint
  BY <1>1, <1>3, <1>4, <1>5, <1>6 DEF Complaint
<1> QED BY <1>2, <1>4, <1>7

\* Staff write columns of a row other than its dates.
LEMMA HandlesFit ==
    ASSUME DeskInv, UNCHANGED <<profiles, legalVars, screenings, kyc_documents>>,
           NEW i \in DOMAIN complaints,
           \/ AcknowledgeComplaint(i) \/ AssignComplaint(i)
           \/ ResolveComplaint(i) \/ EscalateToRegulator(i)
    PROVE  DeskInv'
<1>1. /\ complaints \in Seq(Complaint) /\ Len(complaints) \in Nat
      /\ DOMAIN complaints = 1 .. Len(complaints) /\ complaints[i] \in Complaint
      /\ complaints[i].due = DueDate(complaints[i].submitted, ResponseDays)
  BY ComplaintFacts
<1>2. PICK old \in Complaint : old = complaints[i]
  BY <1>1
<1>3. PICK facts \in {[status |-> "acknowledged"], [status |-> "under_review", assigned |-> TRUE],
                      [status |-> "resolved", notes |-> TRUE],
                      [status |-> "escalated", regulator |-> TRUE]} : Update(i, facts)
  BY DEF AcknowledgeComplaint, AssignComplaint, ResolveComplaint, EscalateToRegulator
<1>4. /\ DOMAIN facts \subseteq {"status", "assigned", "notes", "regulator"}
      /\ facts["status"] \in {"acknowledged", "under_review", "resolved", "escalated"}
      /\ \A f \in DOMAIN facts \ {"status"} : facts[f] \in BOOLEAN
  <2>1. CASE facts = [status |-> "acknowledged"]
    BY <2>1
  <2>2. CASE facts = [status |-> "under_review", assigned |-> TRUE]
    <3>1. /\ DOMAIN facts = {"status", "assigned"}
          /\ facts["status"] = "under_review" /\ facts["assigned"] = TRUE
      BY <2>2
    <3> QED BY <3>1
  <2>3. CASE facts = [status |-> "resolved", notes |-> TRUE]
    <3>1. /\ DOMAIN facts = {"status", "notes"}
          /\ facts["status"] = "resolved" /\ facts["notes"] = TRUE
      BY <2>3
    <3> QED BY <3>1
  <2>4. CASE facts = [status |-> "escalated", regulator |-> TRUE]
    <3>1. /\ DOMAIN facts = {"status", "regulator"}
          /\ facts["status"] = "escalated" /\ facts["regulator"] = TRUE
      BY <2>4
    <3> QED BY <3>1
  <2> QED BY <2>1, <2>2, <2>3, <2>4
<1>5. PICK row \in Complaint : /\ row.submitted = old.submitted /\ row.due = old.due
                               /\ complaints' = [complaints EXCEPT ![i] = row]
                               /\ UNCHANGED <<pc, req, failures>>
  <2>1. PICK row : row = With(old, facts)
    OBVIOUS
  <2>2. complaints' = [complaints EXCEPT ![i] = row] /\ UNCHANGED <<pc, req, failures>>
    BY <1>1, <1>2, <1>3, <2>1 DEF Update
  <2>3. row \in Complaint /\ row.submitted = old.submitted /\ row.due = old.due
    BY <1>4, <2>1, RowsHandled
  <2> QED BY <2>2, <2>3
<1>6. /\ complaints' \in Seq(Complaint) /\ DOMAIN complaints' = DOMAIN complaints
      /\ complaints'[i] = row /\ \A k \in DOMAIN complaints \ {i} : complaints'[k] = complaints[k]
  BY <1>1, <1>5
<1>7. \A k \in DOMAIN complaints' :
         complaints'[k].due = DueDate(complaints'[k].submitted, ResponseDays)
  BY <1>1, <1>2, <1>5, <1>6, ComplaintFacts
<1>8. ComplaintsFit'
  BY <1>6, <1>7 DEF ComplaintsFit, ComplaintsTypeOK, Complaint
<1> QED BY <1>5, <1>8, ComplaintsStep

-----------------------------------------------------------------------------
(***************************************************************************)
(* The specification.                                                      *)
(***************************************************************************)
\* A statement fails and its call ends.
LEMMA FailuresFit ==
    ASSUME DeskInv, NEW c \in Calls, FailCall(c)
    PROVE  DeskInv'
<1>1. /\ pc' = [pc EXCEPT ![c] = "idle"] /\ req' = [req EXCEPT ![c] = NoRequest]
      /\ UNCHANGED <<profiles, legalVars, complaints, screenings, kyc_documents>>
  BY DEF FailCall
<1>2. failures' \in 0 .. MaxFailures
  BY CallsAssumption DEF FailCall, Failing, DeskInv, CallsFit
<1>3. KycFits' /\ KycGrows
  BY <1>1, Unchanged
<1> QED BY <1>1, <1>2, <1>3, IdleIsReady, KycStep DEF Labels

\* Before the first call there is no row.
LEMMA DeskStarts ==
    ASSUME DeskInit PROVE DeskInv
<1>1. profiles = <<>> /\ documents = <<>> /\ complaints = <<>> /\ kyc_documents = <<>>
      /\ screenings = {} /\ accepted = {} /\ DOMAIN consents = {}
      /\ answers = [u \in Users |-> [types |-> {}, cleared |-> FALSE]]
  BY DEF DeskInit, KycInit, LegalInit, ComplaintsInit
<1>2. \A u \in Users : answers[u].types = {} /\ ~answers[u].cleared
  BY <1>1
<1>3. CallsFit
  <2>1. pc = [c \in Calls |-> "idle"] /\ DOMAIN req = Calls /\ failures = 0
    BY DEF DeskInit, CallsInit
  <2> QED BY <2>1, CallsAssumption DEF CallsFit, KycReady, LegalReady, Labels
<1>4. KycFits
  BY <1>1 DEF KycFits, KycTypeOK
<1>5. LegalFits
  BY <1>1, <1>2 DEF LegalFits, LegalTypeOK, ClearedMeansAccepted, OneCurrentUnlessKeptOrRaced, Current
<1>6. ComplaintsFit
  BY <1>1 DEF ComplaintsFit, ComplaintsTypeOK
<1> QED BY <1>3, <1>4, <1>5, <1>6 DEF DeskInv

\* The invariant is one.
LEMMA DeskAlways == DeskSpec => []DeskInv
<1>1. DeskInit => DeskInv
  BY DeskStarts
<1>2. DeskInv /\ [DeskNext]_deskVars => DeskInv'
  <2> SUFFICES ASSUME DeskInv, [DeskNext]_deskVars PROVE DeskInv'
    OBVIOUS
  <2>1. CASE ScreenOrUpload
    <3>1. ASSUME NEW c \in Calls,
                 \/ \E u \in Users : BeginScreen(c, u)
                 \/ ScreenList(c) \/ MarkScreened(c) \/ ScreenPEP(c)
          PROVE  DeskInv'
      BY <3>1, ScreensFit
    <3>2. ASSUME NEW c \in Calls, StoreUpload(c) \/ \E i \in DOMAIN profiles : BeginUpload(c, i)
          PROVE  DeskInv'
      BY <3>2, UploadsFit
    <3> QED BY <2>1, <3>1, <3>2 DEF ScreenOrUpload
  <2>2. CASE KycNext /\ UNCHANGED <<legalVars, complaints, screenings, kyc_documents>>
    <3>1. ASSUME NEW c \in Calls, WriteProfile(c) \/ \E u \in Users : BeginSubmit(c, u)
          PROVE  DeskInv'
      BY <2>2, <3>1, SubmitsFit
    <3>2. ASSUME NEW i \in DOMAIN profiles, NEW t \in Tiers, VerifyProfile(i, t) PROVE DeskInv'
      BY <2>2, <3>2, VerifyFits
    <3> QED BY <2>2, <3>1, <3>2 DEF KycNext
  <2>3. CASE LegalNext /\ UNCHANGED <<profiles, complaints, screenings, kyc_documents>>
    <3>1. ASSUME NEW c \in Calls, NEW t \in Types, NEW s \in Scopes, NEW r \in BOOLEAN,
                 BeginCreate(c, t, s, r)
          PROVE  DeskInv'
      BY <2>3, <3>1, DraftsFit
    <3>2. ASSUME NEW c \in Calls, CreateDocument(c) PROVE DeskInv'
      BY <2>3, <3>2, CreatesFit
    <3>3. ASSUME NEW u \in Users, NEW d \in DOMAIN documents, NEW yes \in BOOLEAN,
                 RecordConsent(u, d, yes)
          PROVE  DeskInv'
      BY <2>3, <3>3, ConsentsFit
    <3>4. ASSUME NEW c \in Calls,
                 \/ \E u \in Users, s \in Scopes : BeginRequired(c, u, s)
                 \/ ListRequired(c) \/ AnswerRequired(c)
          PROVE  DeskInv'
      BY <2>3, <3>4, AnswersFit
    <3> QED BY <2>3, <3>1, <3>2, <3>3, <3>4 DEF LegalNext
  <2>4. CASE ComplaintsNext /\ UNCHANGED <<profiles, legalVars, screenings, kyc_documents>>
    <3>1. ASSUME NEW u \in Users, NEW category \in Categories, NEW day \in FirstDays,
                 CreateComplaint(u, category, day)
          PROVE  DeskInv'
      BY <2>4, <3>1, ComplainsFit
    <3>2. ASSUME NEW i \in DOMAIN complaints,
                 \/ AcknowledgeComplaint(i) \/ AssignComplaint(i)
                 \/ ResolveComplaint(i) \/ EscalateToRegulator(i)
          PROVE  DeskInv'
      BY <2>4, <3>2, HandlesFit
    <3> QED BY <2>4, <3>1, <3>2 DEF ComplaintsNext
  <2>5. ASSUME NEW c \in Calls, FailCall(c) PROVE DeskInv'
    BY <2>5, FailuresFit
  <2>6. CASE UNCHANGED deskVars
    <3>1. UNCHANGED <<profiles, legalVars, screenings, kyc_documents, pc, req, failures>>
          /\ UNCHANGED complaints
      BY <2>6 DEF deskVars
    <3>2. ComplaintsFit'
      BY <3>1, Unchanged
    <3> QED BY <3>1, <3>2, ComplaintsStep
  <2> QED BY <2>1, <2>2, <2>3, <2>4, <2>5, <2>6 DEF DeskNext
<1> QED BY <1>1, <1>2, PTL DEF DeskSpec

\* "Screen user against sanctions lists": a profile marked as checked, for sanctions or as a
\* politically exposed person, has every list on record for its user.
THEOREM Screened == DeskSpec => []ScreenedAgainstAll
<1>1. DeskInv => ScreenedAgainstAll
  <2> SUFFICES ASSUME DeskInv PROVE ScreenedAgainstAll
    OBVIOUS
  <2>1. DeskTypeOK
    BY DEF DeskTypeOK, DeskInv, CallsFit, KycFits, LegalFits, ComplaintsFit, Labels
  <2>2. \A i \in DOMAIN profiles : profiles[i].screened \/ profiles[i].pep => Covered(profiles[i].user)
    BY DEF DeskInv, KycFits
  <2> QED BY <2>1, <2>2 DEF ScreenedAgainstAll, Covered
<1> QED BY <1>1, DeskAlways, PTL

\* "Must be accepted to use service": a user told that nothing is left to accept has accepted
\* some version of every type shown when the question came.
THEOREM Cleared == DeskSpec => []ClearedMeansAccepted
<1>1. DeskInv => ClearedMeansAccepted
  BY DEF DeskInv, LegalFits
<1> QED BY <1>1, DeskAlways, PTL

\* Of two versions in force of a type and jurisdiction the later one did not ask to be accepted
\* anew, or was drafted before the earlier one was there.
THEOREM OneCurrent == DeskSpec => []OneCurrentUnlessKeptOrRaced
<1>1. DeskInv => OneCurrentUnlessKeptOrRaced
  BY DEF DeskInv, LegalFits
<1> QED BY <1>1, DeskAlways, PTL

\* A complaint is overdue from the first day by which the business days to respond have gone by,
\* until staff close it.
THEOREM OverdueInTime == DeskSpec => []OverdueAfterResponseDays
<1>1. DeskInv => OverdueAfterResponseDays
  <2> SUFFICES ASSUME DeskInv, NEW i \in DOMAIN complaints,
                      NEW today \in complaints[i].submitted .. complaints[i].submitted + 30
               PROVE  i \in Overdue(today) <=>
                        /\ complaints[i].status \in {"submitted", "acknowledged", "under_review"}
                        /\ Cardinality({d \in complaints[i].submitted + 1 .. today - 1 : Business(d)})
                              >= ResponseDays
    BY DEF OverdueAfterResponseDays
  <2>1. PICK row \in Complaint : row = complaints[i]
    BY ComplaintFacts
  <2>2. PICK start \in Nat, due \in Nat : /\ start = row.submitted /\ due = row.due
                                          /\ due = DueDate(start, ResponseDays)
    BY <2>1, ComplaintFacts, DaysAssumption DEF Complaint
  <2>3. today \in Int /\ today - 1 \in Int
    BY <2>1, <2>2
  <2>4. due <= today - 1 <=> Cardinality(Worked(start, today - 1)) >= ResponseDays
    BY <2>2, <2>3, DueDateDecides, DaysAssumption
  <2>5. due < today <=> due <= today - 1
    BY <2>3
  <2>6. row.status \notin {"resolved", "closed", "escalated"}
           <=> row.status \in {"submitted", "acknowledged", "under_review"}
    BY DEF Complaint
  <2>7. Worked(start, today - 1) = {d \in complaints[i].submitted + 1 .. today - 1 : Business(d)}
    BY <2>1, <2>2 DEF Worked
  <2>8. i \in Overdue(today) <=> due < today /\ row.status \notin {"resolved", "closed", "escalated"}
    BY <2>1, <2>2 DEF Overdue
  <2> QED BY <2>1, <2>4, <2>5, <2>6, <2>7, <2>8
<1> QED BY <1>1, DeskAlways, PTL
=============================================================================
