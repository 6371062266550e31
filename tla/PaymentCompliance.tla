------------------------- MODULE PaymentCompliance -------------------------
(***************************************************************************)
(* processPayment of services/payment.ts for transaction_type 'payment':   *)
(* the checks that it makes before BEGIN, each a SELECT of its own through *)
(* the pool, and what it does after COMMIT, none of which can undo the     *)
(* payment.  What lies between is PaymentLedger.  monitorTransaction is    *)
(* not awaited: it goes on beside the call, and ends with the process.     *)
(***************************************************************************)
EXTENDS KycProfiles, Jurisdictions, FiniteSetsExt

CONSTANTS
    Amounts,
    RiskColumn,       \* user_jurisdictions.high_risk_jurisdiction exists: no schema file has it
    VelocityCount,    \* payments within 24 hours above which monitoring alerts; 50 in the code
    StructuringCount, \* payments just below the threshold that make an alert; 3 in the code
    ReportingThreshold, \* 10000 in the code
    CtrThreshold,     \* compliance_config.ctr_threshold
    TravelThreshold,  \* compliance_config.travel_rule_threshold
    L1Threshold       \* 1000 in the code

ASSUME PaymentAssumption ==
    /\ RiskColumn \in BOOLEAN /\ Amounts \subseteq Nat
    /\ {VelocityCount, StructuringCount, ReportingThreshold, CtrThreshold, TravelThreshold,
        L1Threshold} \subseteq Nat
    /\ StructuringCount > 0

VARIABLES
    transactions,  \* token_transactions, with what the call had read, in order of COMMIT
    monitors,      \* per transaction: monitorTransaction
    alerts,        \* transaction_alerts
    outside,       \* per transaction: what Galaxia Clearing and Constellation L1 hold of it
    unmonitored    \* history: a failed statement or a restart has cost some monitoring

aftermath == <<transactions, monitors, alerts, outside, unmonitored>>
vars == <<callVars, profiles, jurisdictions, aftermath, log>>

Init ==
    /\ CallsInit /\ KycInit /\ JurisdictionsInit
    /\ transactions = <<>> /\ monitors = <<>> /\ alerts = {}
    /\ outside = <<>> /\ unmonitored = FALSE

-----------------------------------------------------------------------------
\* Before BEGIN.

\* isGeoBlocked refuses, and the call ends.
BeginPayment(c, u, a) ==
    /\ ~IsGeoBlocked(u)
    /\ Enter(c, "kyc", [op |-> "pay", user |-> u, amount |-> a, since |-> Len(log)])
    /\ UNCHANGED <<profiles, jurisdictions, log, aftermath>>

\* Mutant: the status of the profile is not looked at.
CheckKycLimitOnly(c, i) ==
    /\ At(c, "kyc") /\ i \in ProfilesOf(req[c].user)
    /\ IF req[c].amount > Limits(profiles[i].tier).single THEN Finish(c) ELSE Goto(c, "limits")
    /\ UNCHANGED <<profiles, jurisdictions, log, aftermath>>

CheckKyc(c, i) ==
    /\ At(c, "kyc") /\ i \in ProfilesOf(req[c].user)
    /\ IF KycRequired(i, req[c].amount) THEN Finish(c) ELSE Goto(c, "limits")
    /\ UNCHANGED <<profiles, jurisdictions, log, aftermath>>

RefuseUnknown(c) ==
    /\ At(c, "kyc") /\ ProfilesOf(req[c].user) = {}
    /\ Finish(c)
    /\ UNCHANGED <<profiles, jurisdictions, log, aftermath>>

\* getTransactionLimits reads again, perhaps another row: 0 is no limit.
ReadLimits(c, i) ==
    LET limits == Limits(profiles[i].tier) IN
    /\ At(c, "limits") /\ i \in ProfilesOf(req[c].user)
    /\ IF limits.single > 0 /\ req[c].amount > limits.single
       THEN Finish(c)
       ELSE Note(c, [daily |-> limits.daily], "daily")
    /\ UNCHANGED <<profiles, jurisdictions, log, aftermath>>

OfUser(u) == {n \in DOMAIN transactions : transactions[n].user = u}

Total(u) == MapThenSumSet(LAMBDA n : transactions[n].amount, OfUser(u))

CheckDaily(c) ==
    /\ At(c, "daily")
    /\ IF req[c].daily > 0 /\ Total(req[c].user) + req[c].amount > req[c].daily
       THEN Finish(c) ELSE Goto(c, "commit")
    /\ UNCHANGED <<profiles, jurisdictions, log, aftermath>>

\* BEGIN to COMMIT, and the start of monitorTransaction.
CommitPayment(c) ==
    /\ At(c, "commit")
    /\ transactions' = Append(transactions,
         [user |-> req[c].user, amount |-> req[c].amount, unlimited |-> req[c].daily = 0, since |-> req[c].since,
          clearing_id |-> FALSE, blockchain_hash |-> FALSE, travel |-> "unknown"])
    /\ monitors' = Append(monitors, [at |-> "velocity", found |-> <<>>])
    /\ outside' = Append(outside, [clearing |-> 0, l1 |-> 0])
    /\ Note(c, [tx |-> Len(transactions) + 1], "travel")
    /\ UNCHANGED <<profiles, jurisdictions, log, alerts, unmonitored>>

-----------------------------------------------------------------------------
\* After COMMIT: every failure is caught and logged.  Users have a wallet, and payments a node.
Mine(c) == req[c].tx

\* isTravelRuleRequired
TravelRuleRequired(u, a) == a >= IF jurisdictions[u] = NoRow THEN 3000 ELSE TravelThreshold

\* createTravelRuleRecord asks that again, with the country for a user id: the uuid column
\* refuses it, and no record is written.
CreateTravelRuleRecord == "failed"

TravelRule(c) ==
    /\ At(c, "travel")
    /\ transactions' = [transactions EXCEPT ![Mine(c)].travel =
                          IF TravelRuleRequired(req[c].user, req[c].amount)
                          THEN CreateTravelRuleRecord ELSE "exempt"]
    /\ Goto(c, "clearing")
    /\ UNCHANGED <<profiles, jurisdictions, log, monitors, alerts, outside, unmonitored>>

\* Mutant: a submission whose answer is lost is sent again.
SubmitClearingAgain(c, arrives, answered) ==
    /\ At(c, "clearing") /\ (answered => arrives)
    /\ outside' = IF arrives THEN [outside EXCEPT ![Mine(c)].clearing = @ + 1] ELSE outside
    /\ IF answered THEN Goto(c, "clearing_id")
       ELSE /\ Failing /\ pc' = [pc EXCEPT ![c] = "clearing"] /\ UNCHANGED <<req, left>>
    /\ UNCHANGED <<profiles, jurisdictions, log, transactions, monitors, alerts, unmonitored>>

\* submitTransaction: refused, or taken, or taken and the answer lost within 30 s.
SubmitClearing(c, arrives, answered) ==
    /\ At(c, "clearing") /\ (answered => arrives)
    /\ outside' = IF arrives THEN [outside EXCEPT ![Mine(c)].clearing = @ + 1] ELSE outside
    /\ IF answered THEN Goto(c, "clearing_id")
       ELSE /\ Failing /\ pc' = [pc EXCEPT ![c] = "l1"] /\ UNCHANGED <<req, left>>
    /\ UNCHANGED <<profiles, jurisdictions, log, transactions, monitors, alerts, unmonitored>>

\* UPDATE of clearing_id.  awaitSettlement polls beside the call, and only logs the outcome.
RecordClearing(c) ==
    /\ At(c, "clearing_id")
    /\ transactions' = [transactions EXCEPT ![Mine(c)].clearing_id = TRUE]
    /\ Goto(c, "l1")
    /\ UNCHANGED <<profiles, jurisdictions, log, monitors, alerts, outside, unmonitored>>

\* sendTransaction of what is at least L1Threshold; the call ends with the others.
SendL1(c, arrives, answered) ==
    LET due == req[c].amount >= L1Threshold IN
    /\ At(c, "l1") /\ (answered => arrives) /\ (arrives => due)
    /\ outside' = IF arrives THEN [outside EXCEPT ![Mine(c)].l1 = @ + 1] ELSE outside
    /\ IF answered THEN Goto(c, "hash")
       ELSE /\ IF due THEN Failing ELSE UNCHANGED failures
            /\ pc' = [pc EXCEPT ![c] = "idle"] /\ req' = [req EXCEPT ![c] = NoRequest]
            /\ UNCHANGED left
    /\ UNCHANGED <<profiles, jurisdictions, log, transactions, monitors, alerts, unmonitored>>

\* UPDATE of blockchain_hash, the audit log, and the answer.
RecordHash(c) ==
    /\ At(c, "hash")
    /\ transactions' = [transactions EXCEPT ![Mine(c)].blockchain_hash = TRUE]
    /\ Finish(c)
    /\ UNCHANGED <<profiles, jurisdictions, log, monitors, alerts, outside, unmonitored>>

-----------------------------------------------------------------------------
\* monitorTransaction, one query at a time; alerts are stored when all checks are through.
Watching(n, l) == monitors[n].at = l
Over == [at |-> "done", found |-> <<>>]

Found(n, kind, holds, l) ==
    monitors' = [monitors EXCEPT ![n] =
        [at |-> l, found |-> IF holds THEN Append(@.found, kind) ELSE @.found]]

MonitoringOnly == UNCHANGED <<callVars, log, profiles, jurisdictions, transactions, alerts, outside,
                              unmonitored>>

\* checkVelocity: too many payments of a day, or too much in a month for the limit of some row.
CheckVelocity(n) ==
    LET u == transactions[n].user
        excessive(i) == LET limit == Limits(profiles[i].tier).monthly
                        IN limit > 0 /\ 2 * Total(u) > 3 * limit IN
    /\ Watching(n, "velocity")
    /\ \/ /\ Cardinality(OfUser(u)) > VelocityCount
          /\ Found(n, "velocity_check", TRUE, "structuring")
       \/ /\ Cardinality(OfUser(u)) <= VelocityCount
          /\ \E i \in ProfilesOf(u) : Found(n, "limit_exceeded", excessive(i), "structuring")
    /\ MonitoringOnly

JustBelow(a) == 10 * a >= 9 * ReportingThreshold /\ a < ReportingThreshold

\* The payments of n's user that are just below the reporting threshold.
Splits(n) == {k \in OfUser(transactions[n].user) : JustBelow(transactions[k].amount)}

\* Mutant: the payments before this one are counted.
CheckStructuringBefore(n) ==
    /\ Watching(n, "structuring")
    /\ Found(n, "structuring",
             JustBelow(transactions[n].amount) /\ Cardinality(Splits(n) \ {n}) >= StructuringCount,
             "rest")
    /\ MonitoringOnly

\* StructuringCount payments just below the threshold always add up to it.
CheckStructuring(n) ==
    /\ Watching(n, "structuring")
    /\ Found(n, "structuring",
             JustBelow(transactions[n].amount) /\ Cardinality(Splits(n)) >= StructuringCount,
             "rest")
    /\ MonitoringOnly

\* checkUnusualPatterns: of n amounts none is further than (n - 1) / sqrt(n) deviations from
\* their mean, so three deviations take eleven payments.
Unusual(u) == IF Cardinality(OfUser(u)) < 11 THEN {FALSE} ELSE BOOLEAN

\* checkSanctionsMatch finds what screenSanctions recorded as a match: nothing.
SanctionsMatch == FALSE

\* checkLargeTransaction, of users whose jurisdiction is known.
Large(n) == jurisdictions[transactions[n].user] # NoRow /\ transactions[n].amount >= CtrThreshold

\* checkHighRiskJurisdiction, whose SELECT fails without the column; with it no user is
\* detected in a country of its list.  Then the other checks.
CheckTheRest(n, unusual) ==
    /\ Watching(n, "rest") /\ unusual \in Unusual(transactions[n].user)
    /\ monitors' = [monitors EXCEPT ![n] =
         IF RiskColumn
         THEN [at |-> "store",
               found |-> @.found \o (IF unusual THEN <<"unusual_pattern">> ELSE <<>>)
                                \o (IF SanctionsMatch THEN <<"sanctions_match">> ELSE <<>>)
                                \o (IF Large(n) THEN <<"large_transaction">> ELSE <<>>)]
         ELSE Over]
    /\ MonitoringOnly

\* storeAlert of the next one.
StoreAlert(n) ==
    LET found == monitors[n].found IN
    /\ Watching(n, "store")
    /\ \/ /\ found = <<>>
          /\ monitors' = [monitors EXCEPT ![n].at = "done"]
          /\ UNCHANGED alerts
       \/ /\ found # <<>>
          /\ alerts' = alerts \cup {[transaction |-> n, kind |-> Head(found)]}
          /\ monitors' = [monitors EXCEPT ![n].found = Tail(@)]
    /\ UNCHANGED <<callVars, log, profiles, jurisdictions, transactions, outside, unmonitored>>

\* A query or an INSERT fails: what was found and not stored is lost.
LoseMonitor(n) ==
    /\ monitors[n].at # "done" /\ Failing
    /\ monitors' = [monitors EXCEPT ![n] = Over]
    /\ unmonitored' = TRUE
    /\ UNCHANGED <<pc, req, left, log, profiles, jurisdictions, transactions, alerts, outside>>

Monitor(n) ==
    \/ CheckVelocity(n) \/ CheckStructuring(n)
    \/ \E unusual \in BOOLEAN : CheckTheRest(n, unusual)
    \/ StoreAlert(n)

-----------------------------------------------------------------------------
\* The process stops: transactions roll back, and nothing takes up what was not awaited.
Restart ==
    /\ Failing
    /\ pc' = [c \in Calls |-> "idle"] /\ req' = [c \in Calls |-> NoRequest]
    /\ monitors' = [n \in DOMAIN monitors |-> Over]
    /\ unmonitored' = (unmonitored \/ \E n \in DOMAIN monitors : monitors[n].at # "done")
    /\ UNCHANGED <<left, log, profiles, jurisdictions, transactions, alerts, outside>>

-----------------------------------------------------------------------------
Step(c) ==
    \/ \E i \in DOMAIN profiles : CheckKyc(c, i) \/ ReadLimits(c, i)
    \/ RefuseUnknown(c)
    \/ CheckDaily(c) \/ CommitPayment(c) \/ TravelRule(c)
    \/ \E arrives, answered \in BOOLEAN : SubmitClearing(c, arrives, answered) \/ SendL1(c, arrives, answered)
    \/ RecordClearing(c) \/ RecordHash(c)

\* After COMMIT failures are caught where they happen.
FailBefore(c) ==
    /\ "tx" \notin DOMAIN req[c]
    /\ Fail(c)
    /\ UNCHANGED <<profiles, jurisdictions, log, aftermath>>

Next ==
    \/ KycNext /\ UNCHANGED <<jurisdictions, aftermath>>
    \/ JurisdictionsNext /\ UNCHANGED <<profiles, aftermath>>
    \/ \E c \in Calls, u \in Users, a \in Amounts : BeginPayment(c, u, a)
    \/ \E c \in Calls : Step(c) \/ FailBefore(c)
    \/ \E n \in DOMAIN transactions : Monitor(n) \/ LoseMonitor(n)
    \/ Restart

Spec == Init /\ [][Next]_vars

-----------------------------------------------------------------------------
\* Ranges; the parts beside transactions speak of the same rows.
TypeOK ==
    /\ KycTypeOK /\ JurisdictionsTypeOK
    /\ pc \in [Calls -> {"idle", "profile", "detect", "kyc", "limits", "daily", "commit", "travel",
                         "clearing", "clearing_id", "l1", "hash"}]
    /\ failures \in 0 .. MaxFailures
    /\ transactions \in Seq([user : Users, amount : Amounts, unlimited : BOOLEAN, since : Nat,
                             clearing_id : BOOLEAN,
                             blockchain_hash : BOOLEAN, travel : {"unknown", "exempt", "failed"}])
    /\ DOMAIN monitors = DOMAIN transactions
    /\ DOMAIN outside = DOMAIN transactions

Approves(n, i) ==
    /\ log[i].op = "verify" /\ log[i].user = transactions[n].user
    /\ transactions[n].amount <= Limits(log[i].tier).single

\* "KYC verification required", "Geo-blocking check": a payment rests on an approval, of a tier
\* that allows its amount, which no submission had withdrawn before the payment's call began,
\* and by then its user's jurisdiction had not been detected.  Rows keep their references.
PaidOnlyWhenCleared ==
    TypeOK /\ \A n \in DOMAIN transactions :
        LET before(op) == {i \in 1 .. transactions[n].since :
                             log[i].op = op /\ log[i].user = transactions[n].user} IN
        /\ before("detect") = {}
        /\ \E i \in DOMAIN log : Approves(n, i) /\ \A j \in before("resubmit") : j < i

\* Status and limits are two SELECTs.  A payment goes without a daily limit only if its user
\* has two profiles, which racing submissions insert, or was verified with an unknown tier.
UnlimitedOnlyByRace ==
    \A n \in DOMAIN transactions : transactions[n].unlimited =>
        \/ Cardinality(ProfilesOf(transactions[n].user)) > 1
        \/ \E i \in DOMAIN log : /\ log[i].op = "verify" /\ log[i].user = transactions[n].user
                                    /\ log[i].tier \notin DOMAIN TierLimits

\* Neither Clearing nor L1 is given a payment twice, and the ids on record are of
\* submissions that did arrive.
SubmittedOnce ==
    \A n \in DOMAIN transactions :
        /\ outside[n].clearing <= 1 /\ outside[n].l1 <= 1
        /\ transactions[n].clearing_id => outside[n].clearing = 1
        /\ transactions[n].blockchain_hash => outside[n].l1 = 1

\* "structuring detection": once monitoring is through, and none of it was lost to a failure
\* or a restart, payments split below the threshold have left an alert.
StructuringNoticed ==
    (~unmonitored /\ \A n \in DOMAIN monitors : monitors[n].at = "done") =>
        \A n \in DOMAIN transactions : Cardinality(Splits(n)) >= StructuringCount =>
            \E alert \in alerts : alert.kind = "structuring" /\ alert.transaction \in Splits(n)
=============================================================================
